---- MODULE Spec2Model ----
(***************************************************************************)
(* Catalog services of the shopperstop voice-assistant frontend.           *)
(*                                                                         *)
(*   CombinedProductService  (app/services/CombinedProductService.ts)      *)
(*       asynchronous load of /combined-products.json, image fallback      *)
(*       rewrite, accessors that poll isLoaded through waitForLoad.        *)
(*   ProductService          (app/services/ProductService.ts)              *)
(*       the same load without rewrite and without a loaded flag,          *)
(*       synchronous accessors, searchProducts(options).                   *)
(*   ProductQuizContainer    (components/ProductQuizContainer.tsx)         *)
(*       the quiz overlay that the agent opens over RPC.                   *)
(*   ProductCardContainer    (components/ProductCardContainer.tsx)         *)
(*       the card overlay, its list of cards and the card on display.      *)
(*   ProductVisualizationPanel (unnamed/part_003)                          *)
(*       the product grid, throttled and debounced.                        *)
(*                                                                         *)
(* JavaScript runs every continuation to completion, so the code between   *)
(* two awaits is one action.                                               *)
(***************************************************************************)
EXTENDS Integers, Sequences, FiniteSets, TLC

VARIABLES
    resp,         \* what the server answers to GET /combined-products.json
    c_pc,         \* CombinedProductService.loadCombinedCatalog: "fetch", "json", "done"
    catalog,      \* CombinedProductService.catalog   (None = null)
    products,     \* CombinedProductService.products
    arProducts,   \* CombinedProductService.arProducts
    isLoaded,     \* CombinedProductService.isLoaded
    call,         \* the pending/finished accessor call of each caller
    p_pc,         \* ProductService.loadCombinedCatalog: "fetch", "json", "done"
    p_catalog,    \* ProductService.catalog
    p_products,   \* ProductService.products
    p_arProducts, \* ProductService.arProducts
    p_ret,        \* the last synchronous ProductService call and what it returned
    quiz,         \* ProductQuizContainer: its state hooks and its pending submission
    user,         \* what the agent sent with the quiz and what the user liked in it
    cards,        \* ProductCardContainer: its state hooks and its registered handler
    grid,         \* ProductVisualizationPanel: its state hooks, its timeout, the clock
    rpc           \* the last request to a client.* method and its reply

vars == <<resp, c_pc, catalog, products, arProducts, isLoaded, call,
          p_pc, p_catalog, p_products, p_arProducts, p_ret, quiz, user,
          cards, grid, rpc>>

c_vars == <<c_pc, catalog, products, arProducts, isLoaded, call>>
p_vars == <<p_pc, p_catalog, p_products, p_arProducts, p_ret>>
ui_vars == <<quiz, user, cards, grid, rpc>>

(***************************************************************************)
(* Bounds of the model.                                                    *)
(***************************************************************************)
MaxAR == 1        \* entries of the AR-keyed collection of an enumerated document
MaxReg == 2       \* records of the regular list of an enumerated document
NCallers == 1     \* concurrent accessor calls on CombinedProductService

(***************************************************************************)
(* JavaScript values.  An optional value is None or Some(v); a JSON scalar *)
(* carries its type, so that a number where a string is expected can be    *)
(* told apart, as the runtime does.                                        *)
(***************************************************************************)
None == <<>>
Some(v) == <<v>>
Str(s) == [t |-> "string", v |-> s]
Num(s) == [t |-> "number", v |-> s]
Undef == [t |-> "undefined", v |-> ""]

\* JavaScript truthiness of a JSON scalar.
Truthy(x) ==
    CASE x.t = "string" -> x.v # ""
      [] x.t = "number" -> x.v # "0"
      [] OTHER -> FALSE

\* String.prototype.includes
Includes(s, m) ==
    \E i \in 1..(Len(s) - Len(m) + 1) : SubSeq(s, i, i + Len(m) - 1) = m

LowerChar(c) ==
    CASE c = "A" -> "a" [] c = "B" -> "b" [] c = "C" -> "c" [] c = "D" -> "d"
      [] c = "E" -> "e" [] c = "F" -> "f" [] c = "G" -> "g" [] c = "H" -> "h"
      [] c = "I" -> "i" [] c = "J" -> "j" [] c = "K" -> "k" [] c = "L" -> "l"
      [] c = "M" -> "m" [] c = "N" -> "n" [] c = "O" -> "o" [] c = "P" -> "p"
      [] c = "Q" -> "q" [] c = "R" -> "r" [] c = "S" -> "s" [] c = "T" -> "t"
      [] c = "U" -> "u" [] c = "V" -> "v" [] c = "W" -> "w" [] c = "X" -> "x"
      [] c = "Y" -> "y" [] c = "Z" -> "z" [] OTHER -> c

\* String.prototype.toLowerCase
RECURSIVE toLowerCase(_)
toLowerCase(s) ==
    IF Len(s) = 0 THEN ""
    ELSE LowerChar(SubSeq(s, 1, 1)) \o toLowerCase(SubSeq(s, 2, Len(s)))

\* Array.prototype.map / filter on sequences
RECURSIVE SelectIdx(_, _, _)
SelectIdx(s, Keep(_), i) ==
    IF i > Len(s) THEN <<>>
    ELSE (IF Keep(s[i]) THEN <<s[i]>> ELSE <<>>) \o SelectIdx(s, Keep, i + 1)
Filter(s, Keep(_)) == SelectIdx(s, Keep, 1)

\* Array.prototype.find: the first element that satisfies Test, or None
Find(s, Test(_)) ==
    IF \E i \in 1..Len(s) : Test(s[i])
    THEN Some(s[CHOOSE i \in 1..Len(s) : Test(s[i]) /\ \A j \in 1..(i - 1) : ~Test(s[j])])
    ELSE None

(***************************************************************************)
(* Image fallback (CombinedProductService.ts:46-61).                       *)
(***************************************************************************)
MARKER == "dummyjson.com"
DEFAULT_IMAGE == "/assets/images/iphoneX.png"

\* IMAGE_CATEGORY_FALLBACKS[category]: None when the key is not in the table
IMAGE_CATEGORY_FALLBACKS(category) ==
    CASE category = "electronics" -> Some("/assets/images/iphoneX.png")
      [] category = "furniture" -> Some("/assets/images/sofa_default.png")
      [] category = "smartphones" -> Some("/assets/images/iphoneX.png")
      [] category = "laptops" -> Some("/assets/images/generic_electronic_default.png")
      [] category = "televisions" -> Some("/assets/images/mi_tv_default.png")
      [] category = "default" -> Some("/assets/images/iphoneX.png")
      [] OTHER -> None

\* the keys of IMAGE_CATEGORY_FALLBACKS
FallbackKeys ==
    {"electronics", "furniture", "smartphones", "laptops", "televisions", "default"}

\* x || d on an optional string
OrElse(x, d) == IF x = None \/ x = Some("") THEN d ELSE x[1]

(***************************************************************************)
(* Normalisation of one record (CombinedProductService.ts:95-112 for the   *)
(* AR collection, 115-131 for the regular list; the two bodies differ only *)
(* in hasAR).  A record is                                                 *)
(*   [id, category, brand, price, inStock, rating, count, images,          *)
(*    thumbnail, title, name, description, tags, features]                 *)
(* with category and thumbnail JSON scalars and images an optional list of *)
(* JSON scalars; price is the current price, rating the average rating and *)
(* count the number of ratings; title, name and description are optional   *)
(* strings, tags and features optional lists of strings.  The spread       *)
(* ...product copies every field that the callback does not set.           *)
(***************************************************************************)

\* a key computed without lower-casing the category
CategoryKey_caseSensitive(product) ==
    IF product.category.t = "undefined" THEN "default"
    ELSE OrElse(Some(product.category.v), "default")

\* product.category?.toLowerCase() || 'default'
CategoryKey(product) ==
    IF product.category.t = "undefined" THEN "default"
    ELSE OrElse(Some(toLowerCase(product.category.v)), "default")

FallbackFor(product) == OrElse(IMAGE_CATEGORY_FALLBACKS(CategoryKey(product)), DEFAULT_IMAGE)

ImagesOf(product) == IF product.images = None THEN <<>> ELSE product.images[1]

\* The callbacks call toLowerCase and includes on what the document holds:
\* on a value that is no string the call is a TypeError.
NormalizeThrows(product) ==
    \/ product.category.t \notin {"undefined", "string"}
    \/ \E i \in 1..Len(ImagesOf(product)) : ImagesOf(product)[i].t # "string"
    \/ product.thumbnail.t \notin {"undefined", "string"}

\* a rewrite that moves every path it keeps under a local prefix
RewriteImage_relocates(img, fallbackImage) ==
    IF Includes(img.v, MARKER) THEN Str(fallbackImage) ELSE Str("/local" \o img.v)

RewriteImage(img, fallbackImage) ==
    IF Includes(img.v, MARKER) THEN Str(fallbackImage) ELSE img

\* a rewrite that tests the thumbnail for the marker but keeps it
RewriteThumbnail_keepsExternal(thumbnail, fallbackImage) ==
    IF Truthy(thumbnail) THEN thumbnail ELSE Str(DEFAULT_IMAGE)

RewriteThumbnail(thumbnail, fallbackImage) ==
    IF thumbnail.t = "string" /\ Includes(thumbnail.v, MARKER)
    THEN Str(fallbackImage)
    ELSE IF Truthy(thumbnail) THEN thumbnail ELSE Str(DEFAULT_IMAGE)

Normalize(product, hasAR) ==
    [id |-> product.id, category |-> product.category, brand |-> product.brand,
     price |-> product.price, inStock |-> product.inStock,
     rating |-> product.rating, count |-> product.count,
     title |-> product.title, name |-> product.name,
     description |-> product.description,
     tags |-> product.tags, features |-> product.features,
     images |-> Some([i \in 1..Len(ImagesOf(product)) |->
                        RewriteImage(ImagesOf(product)[i], FallbackFor(product))]),
     thumbnail |-> RewriteThumbnail(product.thumbnail, FallbackFor(product)),
     hasAR |-> hasAR]

(***************************************************************************)
(* The fetched document:                                                   *)
(*   [catalog    : optional [categories, arEnabledCategories],             *)
(*    arProducts : optional sequence of [key, rec] in key order,           *)
(*    products   : optional sequence of records]                           *)
(***************************************************************************)
OrEmpty(x) == IF x = None THEN <<>> ELSE x[1]

\* Object.values(data.arProducts || {})
ObjectValues(data) ==
    [i \in 1..Len(OrEmpty(data.arProducts)) |-> OrEmpty(data.arProducts)[i].rec]

\* An object that JSON.parse builds has Object.prototype as its prototype,
\* and obj[key] reads the properties it inherits as it reads its own.
ObjectPrototypeKeys ==
    {"constructor", "toString", "toLocaleString", "valueOf", "hasOwnProperty",
     "isPrototypeOf", "propertyIsEnumerable", "__proto__"}

\* the value of an inherited property: a function or, for __proto__, an object
Inherited(key) == [builtin |-> key]

\* catalog?.arProducts?.[id]: the entry under the key, else the property that
\* the object inherits under that name, None when there is neither
ArLookup(cat, id) ==
    IF cat = None \/ cat[1].arProducts = None THEN None
    ELSE LET entries == cat[1].arProducts[1]
         IN  IF \E i \in 1..Len(entries) : entries[i].key = id
             THEN Some(entries[CHOOSE i \in 1..Len(entries) : entries[i].key = id].rec)
             ELSE IF id \in ObjectPrototypeKeys THEN Some(Inherited(id))
             ELSE None

MapNormalize(recs, hasAR) == [i \in 1..Len(recs) |-> Normalize(recs[i], hasAR)]
AnyThrows(recs) == \E i \in 1..Len(recs) : NormalizeThrows(recs[i])

(***************************************************************************)
(* CombinedProductService: the load (CombinedProductService.ts:88-143).    *)
(***************************************************************************)

\* a catch block that resets the catalog and leaves the flag as it is
CLoadCatch_flagNotSet ==
    /\ catalog' = None
    /\ products' = <<>>
    /\ arProducts' = <<>>
    /\ isLoaded' = isLoaded
    /\ c_pc' = "done"

\* the catch block, lines 136-142
CLoadCatch ==
    /\ catalog' = None
    /\ products' = <<>>
    /\ arProducts' = <<>>
    /\ isLoaded' = TRUE
    /\ c_pc' = "done"

\* line 90: fetch resolves with a response, whatever its status
CFetchResolve ==
    /\ c_pc = "fetch"
    /\ resp.kind = "response"
    /\ c_pc' = "json"
    /\ UNCHANGED <<resp, catalog, products, arProducts, isLoaded, call, p_vars, ui_vars>>

\* line 90: fetch rejects (network failure)
CFetchReject ==
    /\ c_pc = "fetch"
    /\ resp.kind = "reject"
    /\ CLoadCatch
    /\ UNCHANGED <<resp, call, p_vars, ui_vars>>

\* line 91: response.json() rejects, the body is no JSON
CJsonReject ==
    /\ c_pc = "json"
    /\ resp.body = None
    /\ CLoadCatch
    /\ UNCHANGED <<resp, call, p_vars, ui_vars>>

\* a try block that raises the flag when only the AR records are in the list
CJsonResolve_flagBeforeMerge ==
    /\ c_pc = "json"
    /\ resp.body # None
    /\ LET data == resp.body[1]
           ar == ObjectValues(data)
           regular == OrEmpty(data.products)
       IN  IF AnyThrows(ar) \/ AnyThrows(regular)
           THEN CLoadCatch
           ELSE /\ catalog' = Some(data)
                /\ arProducts' = MapNormalize(ar, TRUE)
                /\ products' = MapNormalize(ar, TRUE)
                /\ isLoaded' = TRUE
                /\ c_pc' = "done"
    /\ UNCHANGED <<resp, call, p_vars, ui_vars>>

\* a try block that merges the regular records before the AR records
CJsonResolve_regularFirst ==
    /\ c_pc = "json"
    /\ resp.body # None
    /\ LET data == resp.body[1]
           ar == ObjectValues(data)
           regular == OrEmpty(data.products)
       IN  IF AnyThrows(ar) \/ AnyThrows(regular)
           THEN CLoadCatch
           ELSE /\ catalog' = Some(data)
                /\ arProducts' = MapNormalize(ar, TRUE)
                /\ products' = MapNormalize(regular, FALSE) \o MapNormalize(ar, TRUE)
                /\ isLoaded' = TRUE
                /\ c_pc' = "done"
    /\ UNCHANGED <<resp, call, p_vars, ui_vars>>

\* lines 91-135: response.json() resolves and the rest of the try block runs
CJsonResolve ==
    /\ c_pc = "json"
    /\ resp.body # None
    /\ LET data == resp.body[1]
           ar == ObjectValues(data)
           regular == OrEmpty(data.products)
       IN  IF AnyThrows(ar) \/ AnyThrows(regular)
           THEN CLoadCatch
           ELSE /\ catalog' = Some(data)
                /\ arProducts' = MapNormalize(ar, TRUE)
                /\ products' = MapNormalize(ar, TRUE) \o MapNormalize(regular, FALSE)
                /\ isLoaded' = TRUE
                /\ c_pc' = "done"
    /\ UNCHANGED <<resp, call, p_vars, ui_vars>>

(***************************************************************************)
(* CombinedProductService: the accessors (lines 148-227).  A result is     *)
(* [st |-> "ok", val |-> v] or [st |-> "throw", val |-> <<>>].             *)
(***************************************************************************)
Ok(v) == [st |-> "ok", val |-> v]
Throw == [st |-> "throw", val |-> <<>>]
NoRet == [st |-> "none", val |-> <<>>]

\* a lookup that scans the merged list from its end and skips the AR map
getProductById_lastMatch(cat, prods, id) ==
    IF \E i \in 1..Len(prods) : prods[i].id = id
    THEN Some(prods[CHOOSE i \in 1..Len(prods) :
                       prods[i].id = id /\ \A j \in (i + 1)..Len(prods) : prods[j].id # id])
    ELSE None

\* lines 176-184, on the state (cat, prods)
getProductById(cat, prods, id) ==
    IF ArLookup(cat, id) # None
    THEN ArLookup(cat, id)
    ELSE LET SameId(product) == product.id = id IN Find(prods, SameId)

\* line 218: this.catalog?.catalog.categories || []
getCategories(cat) ==
    IF cat = None THEN Ok(<<>>)
    ELSE IF cat[1].catalog = None THEN Throw
    ELSE Ok(cat[1].catalog[1].categories)

\* line 226: this.catalog?.catalog.arEnabledCategories || []
getARCategories(cat) ==
    IF cat = None THEN Ok(<<>>)
    ELSE IF cat[1].catalog = None THEN Throw
    ELSE Ok(cat[1].catalog[1].arEnabledCategories)

\* lines 192-194: product.category.toLowerCase() is a TypeError on a record
\* without category
getProductsByCategory(prods, category) ==
    IF \E i \in 1..Len(prods) : prods[i].category.t # "string"
    THEN Throw
    ELSE LET SameCategory(product) ==
                 toLowerCase(product.category.v) = toLowerCase(category)
         IN  Ok(Filter(prods, SameCategory))

\* String.prototype.trim, on blanks
RECURSIVE TrimStart(_)
TrimStart(s) ==
    IF Len(s) > 0 /\ SubSeq(s, 1, 1) = " " THEN TrimStart(SubSeq(s, 2, Len(s))) ELSE s
RECURSIVE TrimEnd(_)
TrimEnd(s) ==
    IF Len(s) > 0 /\ SubSeq(s, Len(s), Len(s)) = " "
    THEN TrimEnd(SubSeq(s, 1, Len(s) - 1)) ELSE s
Trim(s) == TrimEnd(TrimStart(s))

\* the callback of the text search, lines 206-209
C_Matches(product, searchTerm) ==
    \/ Includes(toLowerCase(OrElse(product.title, OrElse(product.name, ""))), searchTerm)
    \/ Includes(toLowerCase(OrElse(product.description, "")), searchTerm)
    \/ Includes(toLowerCase(product.brand), searchTerm)
    \/ \E i \in 1..Len(OrEmpty(product.tags)) :
           Includes(toLowerCase(OrEmpty(product.tags)[i]), searchTerm)

\* line 202: a blank query returns this.products, the list itself
BlankQuery(query) == Trim(query) = ""

\* lines 202-210
C_searchProducts(prods, query) ==
    IF BlankQuery(query) THEN prods
    ELSE LET Hit(product) == C_Matches(product, toLowerCase(query))
         IN  Filter(prods, Hit)

\* what the accessor op(arg) computes on the state (cat, prods, ars)
Compute(op, arg, cat, prods, ars) ==
    CASE op = "getAllProducts" -> Ok(prods)
      [] op = "getARProducts" -> Ok(ars)
      [] op = "getProductById" -> Ok(getProductById(cat, prods, arg))
      [] op = "getProductsByCategory" -> getProductsByCategory(prods, arg)
      [] op = "searchProducts" -> Ok(C_searchProducts(prods, arg))
      [] op = "getCategories" -> getCategories(cat)
      [] op = "getARCategories" -> getARCategories(cat)

\* the accessor returns the array this.products itself, not a copy (lines
\* 159 and 202)
ReturnsProducts(op, arg) ==
    \/ op = "getAllProducts"
    \/ op = "searchProducts" /\ BlankQuery(arg)

Callers == 1..NCallers

\* the ids the callers look up: A1 is in both collections of some documents,
\* Z9 is in none
LookupIds == {"A1", "B1", "Z9"}

CRequests ==
    {[op |-> o, arg |-> ""] : o \in {"getAllProducts", "getARProducts", "getCategories"}}
    \cup {[op |-> "getProductById", arg |-> id] : id \in LookupIds}

Idle == [pc |-> "idle", op |-> "", arg |-> "", ret |-> NoRet]

\* lines 148-152, entered from an accessor: the first test of isLoaded.
\* When it is false the call sleeps on a 100 ms timer.
CCall(c, req) ==
    /\ call[c].pc = "idle"
    /\ call' = [call EXCEPT ![c] = [pc |-> IF isLoaded THEN "ready" ELSE "sleeping",
                                    op |-> req.op, arg |-> req.arg, ret |-> NoRet]]
    /\ UNCHANGED <<resp, c_pc, catalog, products, arProducts, isLoaded, p_vars, ui_vars>>

\* line 150: the timer fires and the loop tests isLoaded again
CTimer(c) ==
    /\ call[c].pc = "sleeping"
    /\ call' = [call EXCEPT ![c].pc = IF isLoaded THEN "ready" ELSE "sleeping"]
    /\ UNCHANGED <<resp, c_pc, catalog, products, arProducts, isLoaded, p_vars, ui_vars>>

\* the accessor resumes after await this.waitForLoad() and returns
CReturn(c) ==
    /\ call[c].pc = "ready"
    /\ call' = [call EXCEPT ![c].pc = "returned",
                            ![c].ret = Compute(call[c].op, call[c].arg,
                                               catalog, products, arProducts)]
    /\ UNCHANGED <<resp, c_pc, catalog, products, arProducts, isLoaded, p_vars, ui_vars>>

\* the caller is done with what the call returned and may call again
CRelease(c) ==
    /\ call[c].pc = "returned"
    /\ call' = [call EXCEPT ![c] = Idle]
    /\ UNCHANGED <<resp, c_pc, catalog, products, arProducts, isLoaded, p_vars, ui_vars>>

\* Array.prototype.reverse and Array.prototype.pop, which change the array
\* they are called on
InPlace(s, how) ==
    CASE how = "reverse" -> [i \in 1..Len(s) |-> s[Len(s) + 1 - i]]
      [] how = "pop" -> SubSeq(s, 1, Len(s) - 1)

\* caller d holds the array this.products
HoldsProducts(d) ==
    /\ call[d].pc = "returned"
    /\ call[d].ret.st = "ok"
    /\ ReturnsProducts(call[d].op, call[d].arg)

\* The caller of searchProducts reorders or truncates the array that the
\* call returned.  An array has one state, whoever holds it: when the array
\* is this.products, the service and every other holder see the change.
CMutate(c, how) ==
    /\ call[c].pc = "returned"
    /\ call[c].op = "searchProducts"
    /\ call[c].ret.st = "ok"
    /\ LET changed == InPlace(call[c].ret.val, how)
       IN  /\ changed # call[c].ret.val
           /\ call' = [d \in Callers |->
                         IF d = c \/ (HoldsProducts(c) /\ HoldsProducts(d))
                         THEN [call[d] EXCEPT !.ret.val = changed]
                         ELSE call[d]]
           /\ products' = IF HoldsProducts(c) THEN changed ELSE products
    /\ UNCHANGED <<resp, c_pc, catalog, arProducts, isLoaded, p_vars, ui_vars>>

(***************************************************************************)
(* The documents the server may hold.                                      *)
(***************************************************************************)
Rec(id, category, price, rating, count, images, thumbnail) ==
    [id |-> id, category |-> category, brand |-> "Acme", price |-> price,
     inStock |-> TRUE, rating |-> rating, count |-> count,
     title |-> Some(id), name |-> None, description |-> Some(""),
     tags |-> None, features |-> None,
     images |-> images, thumbnail |-> thumbnail]

ExtUrl == "https://cdn.dummyjson.com/p/1.png"
LocalImg == "/assets/images/tv.png"

\* entries of the AR-keyed collection: one rewritten, one with nothing to
\* rewrite and an unmapped category, one whose image is no string
ArEntryPool ==
    { [key |-> "A1", rec |-> Rec("A1", Str("Electronics"), 100, 4, 9,
                                 Some(<<Str(ExtUrl), Str(LocalImg)>>), Str(ExtUrl))],
      [key |-> "B1", rec |-> Rec("B1", Str("Gadgets"), 30, 5, 2, None, Undef)],
      [key |-> "C1", rec |-> Rec("C1", Undef, 70, 3, 1,
                                 Some(<<Num("7")>>), Str(LocalImg))] }

\* records of the regular list: A1 again, an empty thumbnail, a thumbnail
\* that is a number
RegPool ==
    { Rec("A1", Str("Electronics"), 50, 4, 9, None, Undef),
      Rec("B1", Str("Furniture"), 200, 5, 2, Some(<<Str(ExtUrl)>>), Str("")),
      Rec("D1", Undef, 10, 3, 1, Some(<<Str(LocalImg)>>), Num("42")) }

SeqsUpTo(S, n) == UNION {[1..k -> S] : k \in 0..n}

\* an object holds a key once
ArMaps ==
    {m \in SeqsUpTo(ArEntryPool, MaxAR) :
        \A i, j \in 1..Len(m) : i # j => m[i].key # m[j].key}

Meta == [categories |-> <<"Electronics", "Furniture">>,
         arEnabledCategories |-> <<"Electronics">>]

Doc(meta, ar, regular) == [catalog |-> meta, arProducts |-> ar, products |-> regular]

\* a document with two AR entries, B1 written before A1, and one regular
\* record; B1 has an external image and a category that the fallback table
\* does not map, the regular record an external image and no category
TwoArDoc ==
    Doc(Some(Meta),
        Some(<<[key |-> "B1", rec |-> Rec("B1", Str("Gadgets"), 30, 5, 2,
                                          Some(<<Str(ExtUrl)>>), Str(ExtUrl))],
               [key |-> "A1", rec |-> Rec("A1", Str("Electronics"), 100, 4, 9,
                                          Some(<<Str(ExtUrl), Str(LocalImg)>>), Str(ExtUrl))]>>),
        Some(<<Rec("E1", Undef, 10, 3, 1,
                   Some(<<Str(ExtUrl), Str(LocalImg)>>), Str(ExtUrl))>>))

Docs ==
    {Doc(meta, Some(ar), Some(regular)) :
        meta \in {None, Some(Meta)}, ar \in ArMaps, regular \in SeqsUpTo(RegPool, MaxReg)}
    \cup {TwoArDoc}

\* bodies a gateway sends with an error status: HTML, a JSON error object (no
\* field of the catalog), a stale copy of the catalog
ErrorDoc == Doc(None, None, None)
StaleDoc == Doc(Some(Meta), None, Some(<<Rec("B1", Str("Furniture"), 200, 5, 2, None, Undef)>>))

Response(ok, body) == [kind |-> "response", ok |-> ok, body |-> body]
Rejected == [kind |-> "reject", ok |-> FALSE, body |-> None]

Resps ==
    {Rejected}
    \cup {Response(TRUE, b) : b \in {None} \cup {Some(d) : d \in Docs}}
    \cup {Response(FALSE, b) : b \in {None, Some(ErrorDoc), Some(StaleDoc)}}

(***************************************************************************)
(* ProductService: the load (ProductService.ts:41-58).  No rewrite, no     *)
(* loaded flag.                                                            *)
(***************************************************************************)

\* the catch block, lines 52-57
PLoadCatch ==
    /\ p_catalog' = None
    /\ p_products' = <<>>
    /\ p_arProducts' = <<>>
    /\ p_pc' = "done"

\* line 43: fetch resolves with a response, whatever its status
PFetchResolve ==
    /\ p_pc = "fetch"
    /\ resp.kind = "response"
    /\ p_pc' = "json"
    /\ UNCHANGED <<resp, p_catalog, p_products, p_arProducts, p_ret, c_vars, ui_vars>>

\* line 43: fetch rejects
PFetchReject ==
    /\ p_pc = "fetch"
    /\ resp.kind = "reject"
    /\ PLoadCatch
    /\ UNCHANGED <<resp, p_ret, c_vars, ui_vars>>

\* line 44: response.json() rejects
PJsonReject ==
    /\ p_pc = "json"
    /\ resp.body = None
    /\ PLoadCatch
    /\ UNCHANGED <<resp, p_ret, c_vars, ui_vars>>

\* lines 44-51
PJsonResolve ==
    /\ p_pc = "json"
    /\ resp.body # None
    /\ p_catalog' = resp.body
    /\ p_arProducts' = ObjectValues(resp.body[1])
    /\ p_products' = ObjectValues(resp.body[1]) \o OrEmpty(resp.body[1].products)
    /\ p_pc' = "done"
    /\ UNCHANGED <<resp, p_ret, c_vars, ui_vars>>

(***************************************************************************)
(* ProductService: the query engine (ProductService.ts:110-208).           *)
(* Options are [query, filters, sort, offset, limit], each optional;       *)
(* filters are [category, priceRange, inStock, rating, brand], each        *)
(* optional.                                                               *)
(***************************************************************************)
Min2(a, b) == IF a < b THEN a ELSE b
Max2(a, b) == IF a > b THEN a ELSE b

\* Array.prototype.slice(start, end)
Slice(s, start, end) ==
    LET from == IF start < 0 THEN Max2(Len(s) + start, 0) ELSE Min2(start, Len(s))
        to == IF end < 0 THEN Max2(Len(s) + end, 0) ELSE Min2(end, Len(s))
    IN  IF from < to THEN SubSeq(s, from + 1, to) ELSE <<>>

\* String.prototype.localeCompare on identifiers: digits sort before letters
Alphabet == "0123456789ABCDEFGHIJKLMNOPQRSTUVWXYZ"
Rank(c) == CHOOSE i \in 1..Len(Alphabet) : SubSeq(Alphabet, i, i) = c
RECURSIVE localeCompare(_, _)
localeCompare(a, b) ==
    IF Len(a) = 0 /\ Len(b) = 0 THEN 0
    ELSE IF Len(a) = 0 THEN -1
    ELSE IF Len(b) = 0 THEN 1
    ELSE IF Rank(SubSeq(a, 1, 1)) < Rank(SubSeq(b, 1, 1)) THEN -1
    ELSE IF Rank(SubSeq(a, 1, 1)) > Rank(SubSeq(b, 1, 1)) THEN 1
    ELSE localeCompare(SubSeq(a, 2, Len(a)), SubSeq(b, 2, Len(b)))

\* a comparator that never answers 0: a.price < b.price ? -1 : 1, and so on
Compare_neverZero(sortOption, a, b) ==
    CASE sortOption = "price-low" -> IF a.price < b.price THEN -1 ELSE 1
      [] sortOption = "price-high" -> IF b.price < a.price THEN -1 ELSE 1
      [] sortOption = "rating" -> IF b.rating < a.rating THEN -1 ELSE 1
      [] sortOption = "popular" -> IF b.count < a.count THEN -1 ELSE 1
      [] sortOption = "newest" -> IF localeCompare(b.id, a.id) < 0 THEN -1 ELSE 1
      [] OTHER -> 0

\* the comparator of sortProducts, lines 191-207
Compare(sortOption, a, b) ==
    CASE sortOption = "price-low" -> a.price - b.price
      [] sortOption = "price-high" -> b.price - a.price
      [] sortOption = "rating" -> b.rating - a.rating
      [] sortOption = "popular" -> b.count - a.count
      [] sortOption = "newest" -> localeCompare(b.id, a.id)
      [] OTHER -> 0

\* Array.prototype.sort is stable (ECMAScript 2019): an element goes before
\* the first one that the comparator puts strictly after it
InsertSorted(sorted, x, sortOption) ==
    LET later == {i \in 1..Len(sorted) : Compare(sortOption, sorted[i], x) > 0}
        at == IF later = {} THEN Len(sorted) + 1
              ELSE CHOOSE i \in later : \A j \in later : i <= j
    IN  SubSeq(sorted, 1, at - 1) \o <<x>> \o SubSeq(sorted, at, Len(sorted))

RECURSIVE SortFrom(_, _, _, _)
SortFrom(s, i, acc, sortOption) ==
    IF i > Len(s) THEN acc
    ELSE SortFrom(s, i + 1, InsertSorted(acc, s[i], sortOption), sortOption)

\* lines 190-208
sortProducts(prods, sortOption) == SortFrom(prods, 1, <<>>, sortOption)

\* a price test that leaves out a product priced at the maximum
PassesFilters_maxExclusive(product, filters) ==
    /\ ~(/\ filters.category # None /\ filters.category # Some("")
         /\ product.category # Str(filters.category[1]))
    /\ ~(/\ filters.priceRange # None
         /\ \/ product.price < filters.priceRange[1].min
            \/ product.price >= filters.priceRange[1].max)
    /\ ~(filters.inStock # None /\ product.inStock # filters.inStock[1])
    /\ ~(/\ filters.rating # None /\ filters.rating # Some(0)
         /\ product.rating < filters.rating[1])
    /\ ~(/\ filters.brand # None /\ filters.brand # Some("")
         /\ product.brand # filters.brand[1])

\* the callback of applyFilters, lines 151-181
PassesFilters(product, filters) ==
    /\ ~(/\ filters.category # None /\ filters.category # Some("")
         /\ product.category # Str(filters.category[1]))
    /\ ~(/\ filters.priceRange # None
         /\ \/ product.price < filters.priceRange[1].min
            \/ product.price > filters.priceRange[1].max)
    /\ ~(filters.inStock # None /\ product.inStock # filters.inStock[1])
    /\ ~(/\ filters.rating # None /\ filters.rating # Some(0)
         /\ product.rating < filters.rating[1])
    /\ ~(/\ filters.brand # None /\ filters.brand # Some("")
         /\ product.brand # filters.brand[1])

\* lines 150-182
applyFilters(prods, filters) ==
    LET Keep(product) == PassesFilters(product, filters) IN Filter(prods, Keep)

\* a pagination that skips the offset also when no limit is given
Paginate_offsetAlone(results, offset, limit) ==
    IF offset # None /\ limit # None
    THEN Slice(results, offset[1], offset[1] + limit[1])
    ELSE IF limit # None THEN Slice(results, 0, limit[1])
    ELSE IF offset # None THEN Slice(results, offset[1], Len(results))
    ELSE results

\* lines 134-139
Paginate(results, offset, limit) ==
    IF offset # None /\ limit # None
    THEN Slice(results, offset[1], offset[1] + limit[1])
    ELSE IF limit # None THEN Slice(results, 0, limit[1])
    ELSE results

\* the callback of the text search, lines 116-121, with the || evaluated
\* from the left: "throw" when toLowerCase or some is read from a field that
\* the record does not have
P_Matches(product, query) ==
    IF product.name = None THEN "throw"
    ELSE IF Includes(toLowerCase(product.name[1]), query) THEN "yes"
    ELSE IF product.description = None THEN "throw"
    ELSE IF Includes(toLowerCase(product.description[1]), query) THEN "yes"
    ELSE IF Includes(toLowerCase(product.brand), query) THEN "yes"
    ELSE IF product.features = None THEN "throw"
    ELSE IF \E i \in 1..Len(product.features[1]) :
                Includes(toLowerCase(product.features[1][i]), query)
    THEN "yes" ELSE "no"

\* if (options.query)
QueryGiven(options) == options.query # None /\ options.query # Some("")

\* a search that cuts the page before it sorts
searchProducts_pageBeforeSort(prods, options) ==
    LET query == toLowerCase(options.query[1])
        Hit(product) == P_Matches(product, query) = "yes"
    IN  IF QueryGiven(options)
           /\ \E i \in 1..Len(prods) : P_Matches(prods[i], query) = "throw"
        THEN Throw
        ELSE LET queried == IF QueryGiven(options) THEN Filter(prods, Hit) ELSE prods
                 filtered == IF options.filters # None
                             THEN applyFilters(queried, options.filters[1]) ELSE queried
                 paged == Paginate(filtered, options.offset, options.limit)
             IN  Ok(IF options.sort # None /\ options.sort # Some("")
                    THEN sortProducts(paged, options.sort[1]) ELSE paged)

\* lines 110-142: Throw when a callback of the text search throws
searchProducts(prods, options) ==
    LET query == toLowerCase(options.query[1])
        Hit(product) == P_Matches(product, query) = "yes"
    IN  IF QueryGiven(options)
           /\ \E i \in 1..Len(prods) : P_Matches(prods[i], query) = "throw"
        THEN Throw
        ELSE LET queried == IF QueryGiven(options) THEN Filter(prods, Hit) ELSE prods
                 filtered == IF options.filters # None
                             THEN applyFilters(queried, options.filters[1]) ELSE queried
                 sorted == IF options.sort # None /\ options.sort # Some("")
                           THEN sortProducts(filtered, options.sort[1]) ELSE filtered
             IN  Ok(Paginate(sorted, options.offset, options.limit))

(***************************************************************************)
(* ProductService: the synchronous accessors (ProductService.ts:64-103).   *)
(***************************************************************************)

\* lines 81-92
P_getProductById(cat, prods, id) ==
    IF ArLookup(cat, id) # None
    THEN ArLookup(cat, id)
    ELSE LET SameId(product) == product.id = id IN Find(prods, SameId)

\* lines 99-103: product.category.toLowerCase() is a TypeError on a record
\* without category
P_getProductsByCategory(prods, category) ==
    IF \E i \in 1..Len(prods) : prods[i].category.t # "string"
    THEN Throw
    ELSE LET SameCategory(product) ==
                 toLowerCase(product.category.v) = toLowerCase(category)
         IN  Ok(Filter(prods, SameCategory))

\* [...new Set(values)]: each value once, in the order of its first occurrence
RECURSIVE Distinct(_)
Distinct(values) ==
    IF values = <<>> THEN <<>>
    ELSE LET front == Distinct(SubSeq(values, 1, Len(values) - 1))
             last == values[Len(values)]
         IN  IF \E i \in 1..Len(front) : front[i] = last THEN front
             ELSE Append(front, last)

\* lines 214-216
P_getCategories(prods) == Distinct([i \in 1..Len(prods) |-> prods[i].category])

\* lines 222-224
getBrands(prods) == Distinct([i \in 1..Len(prods) |-> prods[i].brand])

\* a JavaScript number: finite, Infinity or -Infinity
Fin(n) == [fin |-> n]
Infinity == [inf |-> "+"]
NegInfinity == [inf |-> "-"]

\* a <= b on JavaScript numbers
Leq(a, b) ==
    IF a = NegInfinity \/ b = Infinity THEN TRUE
    ELSE IF a = Infinity \/ b = NegInfinity THEN FALSE
    ELSE a.fin <= b.fin

\* Math.min(...prices): Infinity when there is no argument
MathMin(prices) ==
    IF prices = <<>> THEN Infinity
    ELSE Fin(CHOOSE p \in {prices[i] : i \in 1..Len(prices)} :
                 \A i \in 1..Len(prices) : p <= prices[i])

\* Math.max(...prices): -Infinity when there is no argument
MathMax(prices) ==
    IF prices = <<>> THEN NegInfinity
    ELSE Fin(CHOOSE p \in {prices[i] : i \in 1..Len(prices)} :
                 \A i \in 1..Len(prices) : p >= prices[i])

\* lines 230-236
getPriceRange(prods) ==
    LET prices == [i \in 1..Len(prods) |-> prods[i].price]
    IN  [min |-> MathMin(prices), max |-> MathMax(prices)]

\* lines 242-244: this.catalog?.catalog || null
getCatalogInfo(cat) == IF cat = None THEN None ELSE cat[1].catalog

PCompute(op, arg) ==
    CASE op = "getAllProducts" -> Ok(p_products)
      [] op = "getARProducts" -> Ok(p_arProducts)
      [] op = "getProductById" -> Ok(P_getProductById(p_catalog, p_products, arg))
      [] op = "getProductsByCategory" -> P_getProductsByCategory(p_products, arg)
      [] op = "searchProducts" -> searchProducts(p_products, arg)
      [] op = "getCategories" -> Ok(P_getCategories(p_products))
      [] op = "getBrands" -> Ok(getBrands(p_products))
      [] op = "getPriceRange" -> Ok(getPriceRange(p_products))
      [] op = "getCatalogInfo" -> Ok(getCatalogInfo(p_catalog))

PNoCall == [op |-> "", arg |-> "", ret |-> NoRet]

\* a synchronous call: it returns at once, on the state as it is
PCall(op, arg) ==
    /\ p_ret' = [op |-> op, arg |-> arg, ret |-> PCompute(op, arg)]
    /\ UNCHANGED <<resp, p_pc, p_catalog, p_products, p_arProducts, c_vars, ui_vars>>

PRequests ==
    {[op |-> o, arg |-> ""] : o \in {"getAllProducts", "getARProducts"}}
    \cup {[op |-> "getProductById", arg |-> id] : id \in LookupIds}
    \cup {[op |-> "getProductsByCategory", arg |-> "electronics"]}
    \cup {[op |-> o, arg |-> ""] :
            o \in {"getCategories", "getBrands", "getPriceRange", "getCatalogInfo"}}

(***************************************************************************)
(* The inputs of searchProducts.                                           *)
(***************************************************************************)
MaxLimit == 2     \* largest limit of a search

Item(id, category, brand, price, inStock, rating, count) ==
    [id |-> id, category |-> category, brand |-> brand, price |-> price,
     inStock |-> inStock, rating |-> rating, count |-> count,
     title |-> None, name |-> Some(id), description |-> Some(""),
     tags |-> None, features |-> Some(<<>>),
     images |-> None, thumbnail |-> Undef]

\* B1 and C1 have one price, A1 and B1 one rating and one count, A1 and B1
\* categories that differ in case only; the AR record A1 and the regular
\* record A1 differ in count
SearchArPool ==
    { [key |-> "D1", rec |-> Item("D1", Str("Electronics"), "acme", 60, TRUE, 3, 9)],
      [key |-> "A1", rec |-> Item("A1", Str("Electronics"), "Acme", 20, TRUE, 4, 8)] }

SearchPool ==
    { Item("A1", Str("Electronics"), "Acme", 20, TRUE, 4, 7),
      Item("B1", Str("electronics"), "Bolt", 50, FALSE, 4, 7),
      Item("C1", Str("Furniture"), "Acme", 50, TRUE, 5, 2) }

SearchArMaps ==
    {m \in SeqsUpTo(SearchArPool, MaxAR) :
        \A i, j \in 1..Len(m) : i # j => m[i].key # m[j].key}

\* records for the text search
TextRec(id, title, name, description, brand, tags, features) ==
    [id |-> id, category |-> Str("Furniture"), brand |-> brand, price |-> 10,
     inStock |-> TRUE, rating |-> 4, count |-> 1,
     title |-> title, name |-> name, description |-> description,
     tags |-> tags, features |-> features,
     images |-> None, thumbnail |-> Undef]

\* T1 has a title and tags, no name and no features; T2 a name and features,
\* no title and no tags, and no space in any field; T3 has all of them, its
\* name unlike its title
T1 == TextRec("T1", Some("Red Sofa"), None, Some("Comfy"), "Acme", Some(<<"Living">>), None)
T2 == TextRec("T2", None, Some("MiTV"), Some("Smart"), "Bolt", None, Some(<<"HDR">>))
T3 == TextRec("T3", Some("Oak Table"), Some("Desk"), Some("Solid"), "Oakline",
              Some(<<"Dining">>), Some(<<"Seats six">>))

TextArMaps == {<<>>, <<[key |-> "T2", rec |-> T2]>>}

TextDocs ==
    {Doc(Some(Meta), Some(ar), Some(regular)) :
        ar \in TextArMaps, regular \in SeqsUpTo({T1, T3}, MaxReg)}

SearchDocs ==
    {Doc(Some(Meta), Some(ar), Some(regular)) :
        ar \in SearchArMaps, regular \in SeqsUpTo(SearchPool, MaxReg)}
    \cup TextDocs

Filters(category, priceRange, inStock, rating, brand) ==
    [category |-> category, priceRange |-> priceRange, inStock |-> inStock,
     rating |-> rating, brand |-> brand]

Range(min, max) == [min |-> min, max |-> max]

FilterPool ==
    {None, Some(Filters(None, None, None, None, None))}
    \cup {Some(Filters(Some(c), None, None, None, None)) :
            c \in {"electronics", "Electronics", "Furniture"}}
    \cup {Some(Filters(None, Some(r), None, None, None)) :
            r \in {Range(20, 50), Range(50, 60), Range(60, 20)}}
    \cup {Some(Filters(None, None, Some(TRUE), None, None)),
          Some(Filters(None, None, None, Some(4), None)),
          Some(Filters(None, None, None, None, Some("Acme"))),
          Some(Filters(Some("Electronics"), Some(Range(20, 50)), None, None, None))}

SortOptions == {"price-low", "price-high", "rating", "newest", "popular"}

\* offsets before, inside, at the end of and beyond the longest list
Offsets == {-1, 0, 1, MaxAR + MaxReg, MaxAR + MaxReg + 1}

\* the empty query, a blank one, and words in the case of no field
Queries == {"", " ", "SOFA", "hdr", "living", "desk", "bolt", "acme"}

SearchOptions ==
    [query : {None},
     filters : FilterPool,
     sort : {None} \cup {Some(o) : o \in SortOptions},
     offset : {None} \cup {Some(o) : o \in Offsets},
     limit : {None} \cup {Some(l) : l \in 0..MaxLimit}]
    \cup
    [query : {Some(q) : q \in Queries},
     filters : {None, Some(Filters(None, None, None, None, Some("Acme")))},
     sort : {None, Some("price-low")},
     offset : {None},
     limit : {None, Some(1)}]

\* searches of a caller that knows nothing of the catalog: no option, a
\* word, a sort with a page
PlainSearches ==
    {[query |-> None, filters |-> None, sort |-> None, offset |-> None, limit |-> None],
     [query |-> Some("bolt"), filters |-> None, sort |-> None, offset |-> None,
      limit |-> None],
     [query |-> None, filters |-> Some(Filters(None, None, Some(TRUE), None, None)),
      sort |-> Some("price-low"), offset |-> Some(0), limit |-> Some(1)]}

\* searchProducts(options), a synchronous call like the others
PSearch(options) == PCall("searchProducts", options)

(***************************************************************************)
(* The RPC channel of the overlays.  A handler gets data, which may be of  *)
(* any type; an object may have a payload, which is a string (JSON text or *)
(* not) or a value passed as it is.  Text(v) is the text that serialises   *)
(* v.                                                                      *)
(***************************************************************************)
JsNull == [t |-> "null"]
NotAnObject == [t |-> "string", payload |-> None]
NullData == [t |-> "null", payload |-> None]
NoPayload == [t |-> "object", payload |-> None]
UndefinedPayload == [t |-> "object", payload |-> Some([t |-> "undefined"])]
BadJson == [t |-> "object", payload |-> Some([t |-> "string", json |-> None])]
Text(v) == [t |-> "object", payload |-> Some([t |-> "string", json |-> Some(v)])]
Object(v) == [t |-> "object", payload |-> Some([t |-> "object", v |-> v])]

\* typeof data === 'object' && data !== null && 'payload' in data
isValidRPCData(data) == data.t = "object" /\ data.payload # None

\* JSON.parse(text): the value, or a SyntaxError
JSONparse(text) == IF text.json = None THEN Throw ELSE Ok(text.json[1])

\* payload.action: a TypeError on null, undefined on a value without it
ReadAction(payload) ==
    IF payload = JsNull THEN Throw
    ELSE IF "action" \in DOMAIN payload THEN Ok(payload.action)
    ELSE Ok("")

\* the reply of the catch block without its prefix
ErrorReply_bare(message) == message

\* "Error: " + error.message
ErrorReply(message) == "Error: " \o message

SyntaxError == "Unexpected token"
TypeError == "Cannot read properties of null (reading 'action')"

\* the first lines of each handler: the data check and the parse.  "invalid"
\* is the early return, "throw" an exception on the way to the catch block
Decode(data) ==
    IF ~isValidRPCData(data) \/ data.payload[1].t = "undefined"
    THEN [st |-> "invalid", val |-> JsNull, message |-> ""]
    ELSE IF data.payload[1].t = "string"
    THEN IF JSONparse(data.payload[1]) = Throw
         THEN [st |-> "throw", val |-> JsNull, message |-> SyntaxError]
         ELSE [st |-> "ok", val |-> JSONparse(data.payload[1]).val, message |-> ""]
    ELSE [st |-> "ok", val |-> data.payload[1].v, message |-> ""]

\* what a request is, for the record of the last call
DataKind(data) ==
    IF ~isValidRPCData(data) THEN IF data.t = "object" THEN "no-payload" ELSE "not-object"
    ELSE IF data.payload[1].t = "undefined" THEN "no-payload"
    ELSE IF Decode(data).st = "throw" THEN "bad-json"
    ELSE IF Decode(data).val = JsNull THEN "null"
    ELSE "payload"

\* the record of the last call: the method, the kind of data, the reply
Reply(method, data, ret) == [method |-> method, kind |-> DataKind(data), ret |-> ret]
NoRpc == [method |-> "", kind |-> "", ret |-> ""]

\* data that no handler accepts
BadData == {NotAnObject, NullData, NoPayload, UndefinedPayload, BadJson}

(***************************************************************************)
(* ProductQuizContainer (components/ProductQuizContainer.tsx) and its      *)
(* child ProductSelectionQuiz.  The state hooks of lines 9-16 are the      *)
(* fields of quiz; selections maps a product id to "liked", "disliked" or  *)
(* "none" (no entry).  pending is the agent.submitProductQuiz request in   *)
(* flight, agent whether useVoiceAssistant has an agent, card the product  *)
(* of the card that is mounted: the child keys the card by product id      *)
(* inside <AnimatePresence mode="wait">, so a card stays mounted, with the *)
(* handlers of the render that made it, until its exit animation ends.     *)
(***************************************************************************)
MaxQuiz == 3      \* products of a quiz

QuizIds == <<"p1", "p2", "p3", "p4", "p5">>
QuizIdSet == {QuizIds[i] : i \in 1..Len(QuizIds)}

NoSelections == [id \in QuizIdSet |-> "none"]

\* lines 9-18
QuizStart ==
    [products |-> <<>>, currentIndex |-> 0, isVisible |-> FALSE, quizId |-> None,
     selections |-> NoSelections, discountPercentage |-> 5,
     showResults |-> FALSE, pending |-> None, agent |-> FALSE, card |-> None]

\* what the agent sent with the quiz, what the user has chosen since and
\* whether on a card that was leaving, whether the quiz replaced one with
\* selections, and how the last call of handleQuizComplete ended
NoUser ==
    [sent |-> None, liked |-> {}, recorded |-> NoSelections, stale |-> FALSE,
     discarded |-> FALSE, outcome |-> "none"]

\* the payloads with action "show": a product list, a discount percentage
\* or none, a quiz id or none
ShowPayloads ==
    [action : {"show"},
     products : {None} \cup {Some(SubSeq(QuizIds, 1, n)) : n \in {0, MaxQuiz}},
     discount_percentage : {None, Some(0), Some(10)},
     id : {None, Some("q1"), Some("q2")}]

\* part_003:621, 727-745: the child renders the card of products[currentIndex]
CardBranch(q) == q.isVisible /\ ~q.showResults /\ q.currentIndex < Len(q.products)

\* part_003:621-639: the child renders "Quiz Complete!" and its button
CompleteView(q) ==
    /\ q.isVisible /\ ~q.showResults
    /\ Len(q.products) > 0 /\ q.currentIndex >= Len(q.products)

\* part_003:641
currentProduct(q) == q.products[q.currentIndex + 1]

\* the re-render that follows a state change: without the card branch no
\* card is mounted; with it the card on screen stays (it is the current one
\* or it is leaving) and the current one is mounted when there is none
Mount(q) ==
    [q EXCEPT !.card = IF ~CardBranch(q) THEN None
                       ELSE IF q.card = None THEN Some(currentProduct(q))
                       ELSE q.card]

\* a "show" that keeps the selections of the quiz before
QShow_keepsSelections(payload) ==
    /\ quiz' = Mount([quiz EXCEPT
                   !.currentIndex = 0,
                   !.showResults = FALSE,
                   !.quizId = payload.id,
                   !.products = OrEmpty(payload.products),
                   !.discountPercentage =
                       IF payload.discount_percentage \in {None, Some(0)}
                       THEN 5 ELSE payload.discount_percentage[1],
                   !.isVisible = TRUE])
    /\ user' = [user EXCEPT !.sent = payload.discount_percentage, !.liked = {},
                            !.recorded = NoSelections, !.stale = FALSE,
                            !.discarded = quiz.selections # NoSelections]

\* lines 44-53: payload.action === "show"
QShow(payload) ==
    /\ quiz' = Mount([quiz EXCEPT
                   !.selections = NoSelections,
                   !.currentIndex = 0,
                   !.showResults = FALSE,
                   !.quizId = payload.id,
                   !.products = OrEmpty(payload.products),
                   !.discountPercentage =
                       IF payload.discount_percentage \in {None, Some(0)}
                       THEN 5 ELSE payload.discount_percentage[1],
                   !.isVisible = TRUE])
    /\ user' = [user EXCEPT !.sent = payload.discount_percentage, !.liked = {},
                            !.recorded = NoSelections, !.stale = FALSE,
                            !.discarded = quiz.selections # NoSelections]

\* lines 29-63: the handler of client.productquiz
handleShowProductQuiz(data) ==
    LET d == Decode(data)
        method == "client.productquiz"
    IN  /\ IF d.st = "invalid"
           THEN /\ rpc' = Reply(method, data, "Error: Invalid RPC data format")
                /\ UNCHANGED <<quiz, user>>
           ELSE IF d.st = "throw" \/ ReadAction(d.val) = Throw
           THEN /\ rpc' = Reply(method, data,
                                ErrorReply(IF d.st = "throw" THEN d.message ELSE TypeError))
                /\ UNCHANGED <<quiz, user>>
           ELSE IF ReadAction(d.val) = Ok("show")
           THEN /\ QShow(d.val)
                /\ rpc' = Reply(method, data, "Success")
           ELSE IF ReadAction(d.val) = Ok("hide")
           THEN /\ quiz' = Mount([quiz EXCEPT !.isVisible = FALSE])
                /\ rpc' = Reply(method, data, "Success")
                /\ UNCHANGED user
           ELSE /\ rpc' = Reply(method, data, "Success")
                /\ UNCHANGED <<quiz, user>>
        /\ UNCHANGED <<resp, c_vars, p_vars, cards, grid>>

\* the close buttons of lines 190, 196 and 223
QHide ==
    /\ quiz.isVisible
    /\ quiz' = Mount([quiz EXCEPT !.isVisible = FALSE])
    /\ UNCHANGED <<resp, c_vars, p_vars, user, cards, grid, rpc>>

\* lines 75-84, called by the child (part_003:643-675): by the Like and
\* Dislike buttons with the current product, by the drag end of the mounted
\* card with the product of that card
handleSwipe(productId, liked) ==
    /\ CardBranch(quiz)
    /\ productId = currentProduct(quiz) \/ quiz.card = Some(productId)
    /\ quiz' = Mount([quiz EXCEPT
                   !.selections[productId] = IF liked THEN "liked" ELSE "disliked",
                   !.currentIndex = @ + 1])
    /\ user' = [user EXCEPT
                   !.liked = IF liked THEN @ \cup {productId} ELSE @ \ {productId},
                   !.recorded[productId] = IF liked THEN "liked" ELSE "disliked",
                   !.stale = @ \/ productId # currentProduct(quiz)]
    /\ UNCHANGED <<resp, c_vars, p_vars, cards, grid, rpc>>

\* part_003:727-745: the exit animation of a card that is no longer the
\* current one ends, and the card of the current product is mounted
CardExit ==
    /\ CardBranch(quiz)
    /\ quiz.card # Some(currentProduct(quiz))
    /\ quiz' = [quiz EXCEPT !.card = Some(currentProduct(quiz))]
    /\ UNCHANGED <<resp, c_vars, p_vars, user, cards, grid, rpc>>

\* a handleQuizComplete that does not look for the agent
handleQuizComplete_noAgentCheck ==
    /\ CompleteView(quiz)
    /\ quiz.pending = None
    /\ IF quiz.quizId \in {None, Some("")}
       THEN /\ user' = [user EXCEPT !.outcome = "skipped"]
            /\ UNCHANGED quiz
       ELSE /\ quiz' = [quiz EXCEPT
                           !.pending = Some([id |-> quiz.quizId[1],
                                             selections |-> quiz.selections])]
            /\ user' = [user EXCEPT !.outcome = "sent"]
    /\ UNCHANGED <<resp, c_vars, p_vars, cards, grid, rpc>>

\* lines 86-101: handleQuizComplete up to await performRpc, called by the
\* "See Results" button; the model follows one request at a time
handleQuizComplete ==
    /\ CompleteView(quiz)
    /\ quiz.pending = None
    /\ IF ~quiz.agent \/ quiz.quizId \in {None, Some("")}
       THEN /\ user' = [user EXCEPT !.outcome = "skipped"]
            /\ UNCHANGED quiz
       ELSE /\ quiz' = [quiz EXCEPT
                           !.pending = Some([id |-> quiz.quizId[1],
                                             selections |-> quiz.selections])]
            /\ user' = [user EXCEPT !.outcome = "sent"]
    /\ UNCHANGED <<resp, c_vars, p_vars, cards, grid, rpc>>

\* lines 103-106: performRpc resolves
QSubmitResolve ==
    /\ quiz.pending # None
    /\ quiz' = Mount([quiz EXCEPT !.pending = None, !.showResults = TRUE])
    /\ user' = [user EXCEPT !.outcome = "succeeded"]
    /\ UNCHANGED <<resp, c_vars, p_vars, cards, grid, rpc>>

\* lines 107-112: performRpc rejects
QSubmitReject ==
    /\ quiz.pending # None
    /\ quiz' = [quiz EXCEPT !.pending = None]
    /\ user' = [user EXCEPT !.outcome = "failed"]
    /\ UNCHANGED <<resp, c_vars, p_vars, cards, grid, rpc>>

\* line 18: the agent joins or leaves the room
AgentChange ==
    /\ quiz' = [quiz EXCEPT !.agent = ~@]
    /\ UNCHANGED <<resp, c_vars, p_vars, user, cards, grid, rpc>>

\* line 115
likedProducts ==
    LET Liked(productId) == quiz.selections[productId] = "liked"
    IN  Filter(quiz.products, Liked)

\* line 116
earnedDiscount == Len(likedProducts) >= 3

\* lines 208-231: the results view is on screen
ResultsShown == quiz.isVisible /\ quiz.showResults

(***************************************************************************)
(* ProductCardContainer (components/ProductCardContainer.tsx).  The state  *)
(* hooks of lines 7-9 are productCards, currentCardIndex and isVisible;    *)
(* registered is productCards.length as the registered handler sees it:    *)
(* the handler is a closure of the render whose effect registered it       *)
(* (lines 13-86), and the effect runs again after a render in which the    *)
(* length has changed.  last keeps the latest 'show' request.              *)
(***************************************************************************)
MaxCards == 2     \* ids that the agent gives its cards

CardIds == <<"c1", "c2", "c3", "c4">>

\* lines 7-9
CardStart ==
    [productCards |-> <<>>, currentCardIndex |-> None, isVisible |-> FALSE,
     registered |-> 0, last |-> None]

\* payloads of client.productcard: a card with an id or without, its content,
\* an index or none
CardPayloads ==
    [action : {"show"},
     id : {None} \cup {Some(CardIds[i]) : i \in 1..MaxCards},
     title : {"first", "second"},
     index : {None, Some(0)}]
    \cup {[action |-> "hide"]}

\* lines 38-52
newCard(payload) == [id |-> payload.id, title |-> payload.title]

\* an updater that appends whatever the list holds
ShowCard_alwaysAppend(prev, card) == Append(prev, card)

\* lines 54-63: the updater passed to setProductCards
ShowCard(prev, card) ==
    IF \E i \in 1..Len(prev) : prev[i].id = card.id
    THEN [i \in 1..Len(prev) |-> IF prev[i].id = card.id THEN card ELSE prev[i]]
    ELSE Append(prev, card)

\* what the latest 'show' did to the list
LastShow(prev, payload) ==
    IF \E i \in 1..Len(prev) : prev[i].id = payload.id
    THEN "replaced" ELSE "appended"

\* lines 22-76: the handler of client.productcard
handleShowProductCard(data) ==
    LET d == Decode(data)
        method == "client.productcard"
    IN  /\ IF d.st = "invalid"
           THEN /\ rpc' = Reply(method, data, "Error: Invalid RPC data format")
                /\ UNCHANGED cards
           ELSE IF d.st = "throw" \/ ReadAction(d.val) = Throw
           THEN /\ rpc' = Reply(method, data,
                                ErrorReply(IF d.st = "throw" THEN d.message ELSE TypeError))
                /\ UNCHANGED cards
           ELSE IF ReadAction(d.val) = Ok("show")
           THEN /\ cards' = [cards EXCEPT
                                !.productCards = ShowCard(@, newCard(d.val)),
                                !.currentCardIndex =
                                    IF d.val.index # None THEN d.val.index
                                    ELSE Some(cards.registered),
                                !.isVisible = TRUE,
                                !.last = Some(LastShow(cards.productCards, d.val))]
                /\ rpc' = Reply(method, data, "Success")
           ELSE IF ReadAction(d.val) = Ok("hide")
           THEN /\ cards' = [cards EXCEPT !.isVisible = FALSE]
                /\ rpc' = Reply(method, data, "Success")
           ELSE /\ rpc' = Reply(method, data, "Success")
                /\ UNCHANGED cards
        /\ UNCHANGED <<resp, c_vars, p_vars, quiz, user, grid>>

\* lines 78-86: the effect registers the handler of the latest render
CardRegister ==
    /\ cards.registered # Len(cards.productCards)
    /\ cards' = [cards EXCEPT !.registered = Len(cards.productCards)]
    /\ UNCHANGED <<resp, c_vars, p_vars, quiz, user, grid, rpc>>

\* lines 111-113: the card on display, None for null
CardAt(c) ==
    IF /\ c.currentCardIndex # None
       /\ c.currentCardIndex[1] >= 0
       /\ c.currentCardIndex[1] < Len(c.productCards)
    THEN Some(c.productCards[c.currentCardIndex[1] + 1])
    ELSE None

currentCard == CardAt(cards)

\* line 117: the panel is rendered
CardOnScreen == cards.isVisible /\ currentCard # None

\* line 127: the close button
CardClose ==
    /\ CardOnScreen
    /\ cards' = [cards EXCEPT !.isVisible = FALSE]
    /\ UNCHANGED <<resp, c_vars, p_vars, quiz, user, grid, rpc>>

\* lines 138-144: Previous, disabled on the first card
CardPrevious ==
    /\ CardOnScreen
    /\ Len(cards.productCards) > 1
    /\ cards.currentCardIndex # Some(0)
    /\ cards' = [cards EXCEPT !.currentCardIndex = Some(Max2(0, @[1] - 1))]
    /\ UNCHANGED <<resp, c_vars, p_vars, quiz, user, grid, rpc>>

\* lines 165-171: Next, disabled on the last card
CardNext ==
    /\ CardOnScreen
    /\ Len(cards.productCards) > 1
    /\ cards.currentCardIndex # Some(Len(cards.productCards) - 1)
    /\ cards' = [cards EXCEPT
                    !.currentCardIndex = Some(Min2(Len(cards.productCards) - 1, @[1] + 1))]
    /\ UNCHANGED <<resp, c_vars, p_vars, quiz, user, grid, rpc>>

(***************************************************************************)
(* ProductVisualizationPanel (unnamed/part_003:27-110).  The state hooks   *)
(* of lines 28-31 are productGrid, isVisible, isInitialRender and          *)
(* lastUpdateTime; timer is the timeout of updateTimeoutRef, now the value *)
(* of Date.now() in milliseconds, registered the lastUpdateTime that the   *)
(* registered handler has closed over (useCallback, line 93): the effect   *)
(* of lines 95-110 registers the new handler after the render that         *)
(* follows a change of lastUpdateTime.                                     *)
(***************************************************************************)
MaxTicks == 8     \* steps of 100 ms that the clock makes

ThrottleMs == 500
DebounceMs == 100

\* lines 28-33; the page is mounted long after the epoch
GridStart ==
    [productGrid |-> None, isVisible |-> FALSE, isInitialRender |-> TRUE,
     lastUpdateTime |-> 0, registered |-> 0, timer |-> None, now |-> ThrottleMs]

\* payloads of client.productgrid
GridPayloads ==
    [action : {"show_grid"}, title : {"g1", "g2"}, products : {None, Some(<<"x">>)}]
    \cup {[action |-> "hide_grid"], [action |-> "refresh"]}

\* lines 73-76
GridOf(payload) == [title |-> payload.title, products |-> OrEmpty(payload.products)]

\* lines 57-58: the test of the handler that is registered
Throttled(g) == g.now - g.registered < ThrottleMs

\* lines 41-93: the handler of client.productgrid
handleShowProductGrid(data) ==
    LET d == Decode(data)
        method == "client.productgrid"
    IN  /\ IF d.st = "invalid"
           THEN /\ rpc' = Reply(method, data, "Error: Invalid RPC data format")
                /\ UNCHANGED grid
           ELSE IF d.st = "throw"
           THEN /\ rpc' = Reply(method, data, ErrorReply(d.message))
                /\ UNCHANGED grid
           ELSE IF Throttled(grid)
           THEN /\ rpc' = Reply(method, data, "Success (throttled)")
                /\ UNCHANGED grid
           ELSE IF ReadAction(d.val) = Throw
           THEN /\ rpc' = Reply(method, data, ErrorReply(TypeError))
                /\ UNCHANGED grid
           ELSE IF ReadAction(d.val) = Ok("show_grid")
           THEN /\ grid' = [grid EXCEPT
                               !.timer = Some([grid |-> GridOf(d.val),
                                               due |-> grid.now + DebounceMs])]
                /\ rpc' = Reply(method, data, "Success")
           ELSE IF ReadAction(d.val) = Ok("hide_grid")
           THEN /\ grid' = [grid EXCEPT !.isVisible = FALSE]
                /\ rpc' = Reply(method, data, "Success")
           ELSE /\ rpc' = Reply(method, data, "Success")
                /\ UNCHANGED grid
        /\ UNCHANGED <<resp, c_vars, p_vars, quiz, user, cards>>

\* lines 72-81: the timeout fires, 100 ms after it was set or later
GridTimer ==
    /\ grid.timer # None
    /\ grid.now >= grid.timer[1].due
    /\ grid' = [grid EXCEPT
                   !.productGrid = Some(grid.timer[1].grid),
                   !.isVisible = TRUE,
                   !.lastUpdateTime = grid.now,
                   !.isInitialRender = FALSE,
                   !.timer = None]
    /\ UNCHANGED <<resp, c_vars, p_vars, quiz, user, cards, rpc>>

\* lines 95-110: after a render with a new handler the cleanup of the effect
\* unregisters the old one and clears the timeout, then the new handler is
\* registered
GridRegister ==
    /\ grid.registered # grid.lastUpdateTime
    /\ grid' = [grid EXCEPT !.registered = grid.lastUpdateTime, !.timer = None]
    /\ UNCHANGED <<resp, c_vars, p_vars, quiz, user, cards, rpc>>

\* line 222: the close button, rendered once there is a grid
GridClose ==
    /\ grid.productGrid # None
    /\ grid.isVisible
    /\ grid' = [grid EXCEPT !.isVisible = FALSE]
    /\ UNCHANGED <<resp, c_vars, p_vars, quiz, user, cards, rpc>>

\* 100 ms pass; a timeout that is due fires before, an effect that is
\* scheduled runs before
GridTick ==
    /\ grid.now + DebounceMs <= ThrottleMs + MaxTicks * DebounceMs
    /\ IF grid.timer = None THEN TRUE ELSE grid.now < grid.timer[1].due
    /\ grid.registered = grid.lastUpdateTime
    /\ grid' = [grid EXCEPT !.now = @ + DebounceMs]
    /\ UNCHANGED <<resp, c_vars, p_vars, quiz, user, cards, rpc>>

\* every overlay as it is mounted
UiInit ==
    /\ quiz = QuizStart
    /\ user = NoUser
    /\ cards = CardStart
    /\ grid = GridStart
    /\ rpc = NoRpc

(***************************************************************************)
(* Both services are module-level singletons: each starts its load in its  *)
(* constructor.                                                            *)
(***************************************************************************)
Init ==
    /\ resp \in Resps
    /\ c_pc = "fetch"
    /\ catalog = None
    /\ products = <<>>
    /\ arProducts = <<>>
    /\ isLoaded = FALSE
    /\ call = [c \in Callers |-> Idle]
    /\ p_pc = "fetch"
    /\ p_catalog = None
    /\ p_products = <<>>
    /\ p_arProducts = <<>>
    /\ p_ret = PNoCall
    /\ UiInit

Next ==
    \/ CFetchResolve
    \/ CFetchReject
    \/ CJsonReject
    \/ CJsonResolve
    \/ \E c \in Callers, req \in CRequests : CCall(c, req)
    \/ \E c \in Callers : CTimer(c)
    \/ \E c \in Callers : CReturn(c)

Spec == Init /\ [][Next]_vars

\* The event loop runs a timer callback that is due and a continuation that
\* is ready; nothing makes the fetch settle.
FairSpec ==
    /\ Spec
    /\ \A c \in Callers : WF_vars(CTimer(c)) /\ WF_vars(CReturn(c))

\* ProductService alone: its load and its synchronous accessors
PNext ==
    \/ PFetchResolve
    \/ PFetchReject
    \/ PJsonReject
    \/ PJsonResolve
    \/ \E req \in PRequests : PCall(req.op, req.arg)
    \/ \E options \in PlainSearches : PSearch(options)

PSpec == Init /\ [][PNext]_vars

\* searchProducts on every loaded catalog: the load has run on a document of
\* SearchDocs
SearchInit ==
    /\ resp \in {Response(TRUE, Some(d)) : d \in SearchDocs}
    /\ c_pc = "fetch"
    /\ catalog = None
    /\ products = <<>>
    /\ arProducts = <<>>
    /\ isLoaded = FALSE
    /\ call = [c \in Callers |-> Idle]
    /\ p_pc = "done"
    /\ p_catalog = resp.body
    /\ p_arProducts = ObjectValues(resp.body[1])
    /\ p_products = ObjectValues(resp.body[1]) \o OrEmpty(resp.body[1].products)
    /\ p_ret = PNoCall
    /\ UiInit

\* a search leaves the catalog as it is, so one call from each catalog covers
\* every call
SearchNext == p_ret = PNoCall /\ \E options \in SearchOptions : PSearch(options)

SearchSpec == SearchInit /\ [][SearchNext]_vars

\* the queries of CombinedProductService after the load, and the callers at
\* work on what the queries return; one document has AR entries and no
\* catalog field, one no AR collection, and one load has failed
QueryDocs ==
    TextDocs
    \cup {TwoArDoc,
          Doc(None, TwoArDoc.arProducts, TwoArDoc.products),
          Doc(Some(Meta), None, Some(<<T1>>))}

QueryInit ==
    /\ resp \in {Response(TRUE, Some(d)) : d \in QueryDocs} \cup {Rejected}
    /\ c_pc = "done"
    /\ catalog = resp.body
    /\ arProducts = IF resp.body = None THEN <<>>
                    ELSE MapNormalize(ObjectValues(resp.body[1]), TRUE)
    /\ products = IF resp.body = None THEN <<>>
                  ELSE MapNormalize(ObjectValues(resp.body[1]), TRUE)
                           \o MapNormalize(OrEmpty(resp.body[1].products), FALSE)
    /\ isLoaded = TRUE
    /\ call = [c \in Callers |-> Idle]
    /\ p_pc = "fetch"
    /\ p_catalog = None
    /\ p_products = <<>>
    /\ p_arProducts = <<>>
    /\ p_ret = PNoCall
    /\ UiInit

\* ids that no catalog holds: Z9, and constructor, a property that every
\* object inherits
MissIds == {"Z9", "constructor"}

QRequests ==
    {[op |-> "searchProducts", arg |-> q] : q \in Queries}
    \cup {[op |-> "getProductById", arg |-> id] : id \in MissIds \cup {"T2"}}
    \cup {[op |-> "getAllProducts", arg |-> ""],
          [op |-> "getARCategories", arg |-> ""],
          [op |-> "getProductsByCategory", arg |-> "furniture"]}

QueryNext ==
    \/ \E c \in Callers, req \in QRequests : CCall(c, req)
    \/ \E c \in Callers : CReturn(c)
    \/ \E c \in Callers, how \in {"reverse", "pop"} : CMutate(c, how)
    \/ \E c \in Callers : CRelease(c)

QuerySpec == QueryInit /\ [][QueryNext]_vars

\* the overlays alone, as they are mounted: the catalog plays no part
OverlayInit ==
    /\ resp = Rejected
    /\ c_pc = "fetch"
    /\ catalog = None
    /\ products = <<>>
    /\ arProducts = <<>>
    /\ isLoaded = FALSE
    /\ call = [c \in Callers |-> Idle]
    /\ p_pc = "fetch"
    /\ p_catalog = None
    /\ p_products = <<>>
    /\ p_arProducts = <<>>
    /\ p_ret = PNoCall
    /\ UiInit

\* the quiz overlay with the agent in the room: the agent's RPCs under one
\* quiz id, with every discount, the user's likes and dislikes, the
\* submission
QuizInit ==
    /\ resp = Rejected
    /\ c_pc = "fetch"
    /\ catalog = None
    /\ products = <<>>
    /\ arProducts = <<>>
    /\ isLoaded = FALSE
    /\ call = [c \in Callers |-> Idle]
    /\ p_pc = "fetch"
    /\ p_catalog = None
    /\ p_products = <<>>
    /\ p_arProducts = <<>>
    /\ p_ret = PNoCall
    /\ quiz = [QuizStart EXCEPT !.agent = TRUE]
    /\ user = NoUser
    /\ cards = CardStart
    /\ grid = GridStart
    /\ rpc = NoRpc

\* the requests of the agent to the quiz, as the channel carries them
QuizData ==
    {Text(v) : v \in {p \in ShowPayloads : p.id # Some("q2")} \cup {[action |-> "hide"]}}

QuizNext ==
    \/ \E data \in QuizData : handleShowProductQuiz(data)
    \/ QHide
    \/ \E productId \in QuizIdSet, liked \in BOOLEAN : handleSwipe(productId, liked)
    \/ CardExit
    \/ handleQuizComplete
    \/ QSubmitResolve
    \/ QSubmitReject

QuizSpec == QuizInit /\ [][QuizNext]_vars

\* the quiz overlay from its mount: the agent joins and leaves, sends
\* quizzes under two ids or none, the user likes (a dislike is recorded in
\* the same way), the submission resolves or rejects
SubmitData ==
    {Text(v) : v \in {p \in ShowPayloads : p.discount_percentage = None}
                     \cup {[action |-> "hide"]}}

SubmitNext ==
    \/ \E data \in SubmitData : handleShowProductQuiz(data)
    \/ QHide
    \/ \E productId \in QuizIdSet : handleSwipe(productId, TRUE)
    \/ CardExit
    \/ handleQuizComplete
    \/ QSubmitResolve
    \/ QSubmitReject
    \/ AgentChange

SubmitSpec == OverlayInit /\ [][SubmitNext]_vars

\* the card overlay alone: the agent's RPCs, the effect, the user's buttons
CardData == {Text(v) : v \in CardPayloads}

CardSpecNext ==
    \/ \E data \in CardData : handleShowProductCard(data)
    \/ CardRegister
    \/ CardClose
    \/ CardPrevious
    \/ CardNext

CardSpec == OverlayInit /\ [][CardSpecNext]_vars

\* the grid panel alone: the agent's RPCs, the timeout, the effect, the
\* clock, the close button
GridData == {Text(v) : v \in GridPayloads}

GridSpecNext ==
    \/ \E data \in GridData : handleShowProductGrid(data)
    \/ GridTimer
    \/ GridRegister
    \/ GridClose
    \/ GridTick

GridSpec == OverlayInit /\ [][GridSpecNext]_vars

\* the three handlers on data of every kind: data that is no object, that
\* has no payload, text that is no JSON, null, and a few requests that are
\* carried out, as text and as objects
FewQuizPayloads ==
    {[action |-> "show", products |-> Some(SubSeq(QuizIds, 1, 1)),
      discount_percentage |-> None, id |-> Some("q1")],
     [action |-> "hide"]}
FewCardPayloads ==
    {[action |-> "show", id |-> Some(CardIds[1]), title |-> "first", index |-> None],
     [action |-> "hide"]}
FewGridPayloads ==
    {[action |-> "show_grid", title |-> "g1", products |-> None],
     [action |-> "hide_grid"]}

AnyData(payloads) ==
    BadData \cup {Text(JsNull), Object(JsNull)}
    \cup {Text(v) : v \in payloads} \cup {Object(v) : v \in payloads}

RpcNext ==
    \/ \E data \in AnyData(FewQuizPayloads) : handleShowProductQuiz(data)
    \/ \E data \in AnyData(FewCardPayloads) : handleShowProductCard(data)
    \/ \E data \in AnyData(FewGridPayloads) : handleShowProductGrid(data)
    \/ GridTimer
    \/ GridRegister
    \/ GridTick

RpcSpec == OverlayInit /\ [][RpcNext]_vars

(***************************************************************************)
(* Properties.                                                             *)
(***************************************************************************)

\* the document of the response, when it has one
HasDoc == resp.kind = "response" /\ resp.body # None
SrcAr == IF HasDoc THEN OrEmpty(resp.body[1].arProducts) ELSE <<>>
SrcRegular == IF HasDoc THEN OrEmpty(resp.body[1].products) ELSE <<>>

IsArKey(id) == \E i \in 1..Len(SrcAr) : SrcAr[i].key = id
IsRegularId(id) == \E i \in 1..Len(SrcRegular) : SrcRegular[i].id = id
ArRecord(id) == SrcAr[CHOOSE i \in 1..Len(SrcAr) : SrcAr[i].key = id].rec

Returned(c, op) == call[c].pc = "returned" /\ call[c].op = op

\* C1  Merge precedence: after a successful load, getProductById of an id that
\* is a key of the AR collection and the id of a regular record returns the
\* record of the AR collection (as fetched or as normalised), never the
\* regular one.
ClaimC1 ==
    \A c \in Callers :
        (/\ Returned(c, "getProductById")
         /\ catalog # None
         /\ IsArKey(call[c].arg)
         /\ IsRegularId(call[c].arg))
        => /\ call[c].ret.st = "ok"
           /\ call[c].ret.val \in {Some(ArRecord(call[c].arg)),
                                   Some(Normalize(ArRecord(call[c].arg), TRUE))}
           /\ \A i \in 1..Len(SrcRegular) :
                 call[c].ret.val \notin {Some(SrcRegular[i]),
                                         Some(Normalize(SrcRegular[i], FALSE))}

\* a lookup of A1 has returned where A1 is in both collections, with
\* different records
WitnessC1 ==
    \E c \in Callers :
        /\ Returned(c, "getProductById")
        /\ catalog # None
        /\ IsArKey(call[c].arg)
        /\ \E i \in 1..Len(SrcRegular) :
              /\ SrcRegular[i].id = call[c].arg
              /\ SrcRegular[i].price # ArRecord(call[c].arg).price

\* C1 on ProductService, for a lookup made after its load
ClaimC1_ProductService ==
    (/\ p_pc = "done"
     /\ p_catalog # None
     /\ p_ret.op = "getProductById"
     /\ p_ret.ret = PCompute(p_ret.op, p_ret.arg)
     /\ IsArKey(p_ret.arg)
     /\ IsRegularId(p_ret.arg))
    => p_ret.ret = Ok(Some(ArRecord(p_ret.arg)))

HasMarker(product) ==
    \/ Includes(product.thumbnail.v, MARKER)
    \/ \E i \in 1..Len(ImagesOf(product)) : Includes(ImagesOf(product)[i].v, MARKER)

\* C2  Fallback totality: no product of the unified list or of the AR list
\* has an image or a thumbnail that contains the marker dummyjson.com.
ClaimC2 ==
    /\ \A i \in 1..Len(products) : ~HasMarker(products[i])
    /\ \A i \in 1..Len(arProducts) : ~HasMarker(arProducts[i])

\* a load has succeeded on a document whose AR and regular records both
\* point at the external host
WitnessC2 ==
    /\ isLoaded
    /\ Len(products) > Len(arProducts)
    /\ \E i \in 1..Len(SrcAr) : Includes(SrcAr[i].rec.thumbnail.v, MARKER)
    /\ \E i \in 1..Len(SrcRegular) : HasMarker(SrcRegular[i])

\* the load failed as the interface counts failures: no response, a status
\* outside 2xx, or a body that is no JSON
LoadFailure == resp.kind = "reject" \/ ~resp.ok \/ resp.body = None

\* C3  Load-await: an accessor called before the fetch has settled returns
\* only after the load has completed, with the value computed from the final
\* catalog, and does not throw.
ClaimC3 ==
    /\ \A c \in Callers :
          call[c].pc = "returned"
          => /\ c_pc = "done"
             /\ call[c].ret.st = "ok"
             /\ call[c].ret = Compute(call[c].op, call[c].arg,
                                      catalog, products, arProducts)
    /\ (p_pc = "done" /\ p_ret.op # "")
       => p_ret.ret = PCompute(p_ret.op, p_ret.arg)

\* C3 on CombinedProductService alone
ClaimC3_Combined ==
    \A c \in Callers :
        call[c].pc = "returned" => c_pc = "done" /\ call[c].ret.st = "ok"

\* C4  Fail-open load: a load that fails by network failure, by a non-2xx
\* response or by a JSON parse failure ends loaded, with an empty product
\* list, an empty AR list and no catalog.
ClaimC4 ==
    /\ (c_pc = "done" /\ LoadFailure)
       => isLoaded /\ products = <<>> /\ arProducts = <<>> /\ catalog = None
    /\ (p_pc = "done" /\ LoadFailure)
       => p_products = <<>> /\ p_arProducts = <<>> /\ p_catalog = None

\* the two catalogs a reader may see: the document normalised in full, or
\* the reset one
View(cat, prods, ars) == [catalog |-> cat, products |-> prods, arProducts |-> ars]
EmptyView == View(None, <<>>, <<>>)
FullView ==
    View(resp.body,
         MapNormalize([i \in 1..Len(SrcAr) |-> SrcAr[i].rec], TRUE)
             \o MapNormalize(SrcRegular, FALSE),
         MapNormalize([i \in 1..Len(SrcAr) |-> SrcAr[i].rec], TRUE))
Views == IF HasDoc THEN {EmptyView, FullView} ELSE {EmptyView}

\* C5  No partial view, write-once: the catalog changes only in the step
\* that raises isLoaded, to the fully normalised or to the reset catalog,
\* never after it; a reader returns only when isLoaded holds, with a value
\* computed from one of these two catalogs.
ClaimC5 ==
    [][/\ isLoaded => /\ isLoaded'
                      /\ UNCHANGED <<catalog, products, arProducts>>
       /\ ~isLoaded => View(catalog, products, arProducts) = EmptyView
       /\ isLoaded' => View(catalog', products', arProducts') \in Views
       /\ \A c \in Callers :
             (call[c].pc # "returned" /\ call'[c].pc = "returned")
             => /\ isLoaded
                /\ \E v \in Views :
                      call'[c].ret = Compute(call[c].op, call[c].arg,
                                             v.catalog, v.products, v.arProducts)
      ]_vars

\* a reader that went to sleep before the load is still asleep when the load
\* has published a catalog with AR and regular records
WitnessC5 ==
    \E c \in Callers :
        /\ call[c].pc = "sleeping"
        /\ isLoaded
        /\ arProducts # <<>>
        /\ Len(products) > Len(arProducts)

Waiting(c) == call[c].pc \in {"sleeping", "ready"}

\* C6  Once the load has settled, by success or by failure, isLoaded is true
\* and, with timers firing, every pending waitForLoad and accessor call
\* returns.
ClaimC6 ==
    /\ [](c_pc = "done" => isLoaded)
    /\ \A c \in Callers : (c_pc = "done" /\ Waiting(c)) ~> (call[c].pc = "returned")

\* a caller sleeps in waitForLoad while the load has ended in its catch block
WitnessC6 ==
    \E c \in Callers :
        call[c].pc = "sleeping" /\ c_pc = "done" /\ resp.kind = "reject"

(***************************************************************************)
(* Properties of searchProducts.                                           *)
(***************************************************************************)
Searched == p_ret.op = "searchProducts"
Result == p_ret.ret.val
Elems(s) == {s[i] : i \in 1..Len(s)}
Count(s, x) == Cardinality({i \in 1..Len(s) : s[i] = x})
NoPage(options) == options.offset = None /\ options.limit = None
NoQuery(options) == ~QueryGiven(options)

OnlyPriceRange(options) ==
    /\ options.filters # None
    /\ options.filters[1].priceRange # None
    /\ options.filters[1] =
           Filters(None, options.filters[1].priceRange, None, None, None)
    /\ NoPage(options)
    /\ NoQuery(options)

\* C7  Price-range filter: a search with the filter priceRange {min, max}
\* alone returns exactly the products with min <= price <= max, those priced
\* at min and at max included.
ClaimC7 ==
    (Searched /\ OnlyPriceRange(p_ret.arg))
    => LET r == p_ret.arg.filters[1].priceRange[1]
       IN  \A x \in Elems(p_products) \cup Elems(Result) :
               Count(Result, x) =
                   IF r.min <= x.price /\ x.price <= r.max
                   THEN Count(p_products, x) ELSE 0

\* a search by price range has kept a product priced at min and one priced
\* at max, and has dropped another product
WitnessC7 ==
    /\ Searched
    /\ OnlyPriceRange(p_ret.arg)
    /\ \E x \in Elems(Result) : x.price = p_ret.arg.filters[1].priceRange[1].min
    /\ \E x \in Elems(Result) : x.price = p_ret.arg.filters[1].priceRange[1].max
    /\ p_ret.arg.filters[1].priceRange[1].min < p_ret.arg.filters[1].priceRange[1].max
    /\ Len(Result) < Len(p_products)

OnlyCategory(options) ==
    /\ options.filters # None
    /\ options.filters[1].category # None
    /\ options.filters[1] =
           Filters(options.filters[1].category, None, None, None, None)
    /\ NoPage(options)
    /\ NoQuery(options)

\* C8  Case-insensitive category filter: a search with filters.category = c
\* returns every product whose category equals c when both are lower-cased.
ClaimC8 ==
    (Searched /\ OnlyCategory(p_ret.arg))
    => \A x \in Elems(p_products) :
           (/\ x.category.t = "string"
            /\ toLowerCase(x.category.v) = toLowerCase(p_ret.arg.filters[1].category[1]))
           => x \in Elems(Result)

\* two products compare equal under a sort option
Tie(sortOption, x, y) ==
    CASE sortOption = "price-low" -> x.price = y.price
      [] sortOption = "price-high" -> x.price = y.price
      [] sortOption = "rating" -> x.rating = y.rating
      [] sortOption = "popular" -> x.count = y.count
      [] sortOption = "newest" -> x.id = y.id

\* x stands before y in the catalog list
Precedes(x, y) ==
    \E a, b \in 1..Len(p_products) : a < b /\ p_products[a] = x /\ p_products[b] = y

RECURSIVE IsSubseq(_, _)
IsSubseq(r, s) ==
    IF r = <<>> THEN TRUE
    ELSE IF s = <<>> THEN FALSE
    ELSE IF Head(r) = Head(s) THEN IsSubseq(Tail(r), Tail(s))
    ELSE IsSubseq(r, Tail(s))

\* the catalog order: the AR records in key order, then the regular list
SrcOrder == [i \in 1..Len(SrcAr) |-> SrcAr[i].rec] \o SrcRegular

\* C9  Sort stability: two products that compare equal under the sort option
\* keep in the result the order they have in the catalog list; without a
\* sort option the result is in catalog order, AR first, then regular.
ClaimC9 ==
    Searched
    => /\ p_ret.arg.sort # None
          => \A i, j \in 1..Len(Result) :
                 (/\ i < j
                  /\ Result[i] # Result[j]
                  /\ Tie(p_ret.arg.sort[1], Result[i], Result[j]))
                 => Precedes(Result[i], Result[j])
       /\ p_ret.arg.sort = None => IsSubseq(Result, SrcOrder)

\* a sort by rating has moved a product to the front and returned two
\* different products of one rating behind it
WitnessC9 ==
    /\ Searched
    /\ p_ret.arg.sort = Some("rating")
    /\ Len(Result) = 3
    /\ Result[1] # p_products[1]
    /\ Result[2] # Result[3]
    /\ Result[2].rating = Result[3].rating

\* the filtered and sorted list that the page is cut from
Unpaged ==
    searchProducts(p_products, [p_ret.arg EXCEPT !.offset = None, !.limit = None]).val

\* C10  Pagination: with offset and limit the result is the elements at
\* positions [offset, offset+limit) of the filtered and sorted list, with a
\* limit alone the first limit elements; an offset at or beyond the length
\* of the list yields the empty sequence, never an error.
ClaimC10 ==
    (/\ Searched
     /\ NoQuery(p_ret.arg)
     /\ p_ret.arg.offset # None => p_ret.arg.offset[1] >= 0)
    => /\ p_ret.ret.st = "ok"
       /\ (p_ret.arg.offset # None /\ p_ret.arg.limit # None)
          => LET n == Max2(0, Min2(p_ret.arg.limit[1],
                                   Len(Unpaged) - p_ret.arg.offset[1]))
             IN  Result = [i \in 1..n |-> Unpaged[p_ret.arg.offset[1] + i]]
       /\ (p_ret.arg.offset = None /\ p_ret.arg.limit # None)
          => Result = [i \in 1..Min2(p_ret.arg.limit[1], Len(Unpaged)) |-> Unpaged[i]]
       /\ (p_ret.arg.offset # None /\ p_ret.arg.offset[1] >= Len(Unpaged))
          => Result = <<>>

\* C10 where a limit is given
ClaimC10_withLimit ==
    (Searched /\ p_ret.arg.limit # None) => ClaimC10

(***************************************************************************)
(* Properties of the image rewrite.                                        *)
(***************************************************************************)

\* the rewrite of the loader, applied to a record of the unified list
Rewritten(product) == Normalize(product, product.hasAR)

Held(id) == LET SameId(product) == product.id = id IN Find(products, SameId)

\* C12  Get-by-id returns the normalised record: after a successful load,
\* getProductById of the key of an AR product whose thumbnail or images point
\* at the external host returns the record that the unified list holds for
\* that id, with thumbnail and images rewritten to the category fallback.
ClaimC12 ==
    \A c \in Callers :
        (/\ Returned(c, "getProductById")
         /\ catalog # None
         /\ IsArKey(call[c].arg)
         /\ HasMarker(ArRecord(call[c].arg)))
        => /\ call[c].ret.st = "ok"
           /\ call[c].ret.val = Held(call[c].arg)
           /\ call[c].ret.val # None
           /\ ~HasMarker(call[c].ret.val[1])

\* no two records of a list have one id
UniqueIds(prods) ==
    \A i, j \in 1..Len(prods) : i # j => prods[i].id # prods[j].id

\* the ids of the AR collection, and of the regular list, are unique within
\* their collection
SrcUnique ==
    /\ UniqueIds([i \in 1..Len(SrcAr) |-> SrcAr[i].rec])
    /\ UniqueIds(SrcRegular)

\* C13  Unique ids in the merged collection: after a successful load of a
\* document whose collections each have unique ids, no two records of the
\* unified list have the same id, and an id of both collections is kept once,
\* as the AR record.
ClaimC13 ==
    /\ (c_pc = "done" /\ catalog # None /\ SrcUnique)
       => /\ UniqueIds(products)
          /\ \A i \in 1..Len(products) : IsArKey(products[i].id) => products[i].hasAR
    /\ (p_pc = "done" /\ p_catalog # None /\ SrcUnique) => UniqueIds(p_products)

\* r is the first Len(r) elements of s
IsPrefix(r, s) == Len(r) <= Len(s) /\ r = SubSeq(s, 1, Len(r))

\* the record of the unified list comes from the source record src
From(product, src) ==
    /\ product.id = src.id
    /\ product.category = src.category
    /\ product.price = src.price

\* C14  Merged ordering: after a successful load the unified list is the AR
\* products in the key-iteration order of the AR map, then the regular
\* products in their list order; the AR list, and what getARProducts
\* returns, is a prefix of the unified list; hasAR is true exactly for the
\* records of that prefix.
ClaimC14 ==
    (c_pc = "done" /\ catalog # None)
    => /\ Len(products) = Len(SrcAr) + Len(SrcRegular)
       /\ Len(arProducts) = Len(SrcAr)
       /\ \A i \in 1..Len(SrcAr) : From(products[i], SrcAr[i].rec)
       /\ \A j \in 1..Len(SrcRegular) : From(products[Len(SrcAr) + j], SrcRegular[j])
       /\ IsPrefix(arProducts, products)
       /\ \A i \in 1..Len(products) : products[i].hasAR <=> i <= Len(arProducts)
       /\ \A c \in Callers :
             /\ Returned(c, "getARProducts") => IsPrefix(call[c].ret.val, products)
             /\ Returned(c, "getAllProducts") => IsPrefix(arProducts, call[c].ret.val)

\* getARProducts has returned two AR products, in the order of the AR map and
\* not of their ids, from a catalog that holds a regular product as well
WitnessC14 ==
    \E c \in Callers :
        /\ Returned(c, "getARProducts")
        /\ Len(call[c].ret.val) = 2
        /\ call[c].ret.val[1].id = "B1"
        /\ call[c].ret.val[2].id = "A1"
        /\ Len(products) = 3
        /\ ~products[3].hasAR

\* the fallback of a record by the rule: the path that the table gives for
\* the lower-cased category, the default path when the record has no
\* category or the table does not map it
RuleFallback(src) ==
    IF src.category.t = "string" /\ toLowerCase(src.category.v) \in FallbackKeys
    THEN IMAGE_CATEGORY_FALLBACKS(toLowerCase(src.category.v))[1]
    ELSE DEFAULT_IMAGE

ClaimC20 ==
    (c_pc = "done" /\ HasDoc)
    => /\ catalog # None
       /\ Len(products) = Len(SrcOrder)
       /\ \A i \in 1..Len(products) :
             /\ products[i].id = SrcOrder[i].id
             /\ SrcOrder[i].images = None => products[i].images = Some(<<>>)
             /\ SrcOrder[i].thumbnail = Undef
                => products[i].thumbnail = Str(DEFAULT_IMAGE)

\* C20 for documents whose image entries and thumbnails are strings or
\* absent
ClaimC20_strings ==
    (/\ c_pc = "done"
     /\ HasDoc
     /\ \A i \in 1..Len(SrcOrder) : ~NormalizeThrows(SrcOrder[i]))
    => ClaimC20

(***************************************************************************)
(* Properties of the queries of CombinedProductService.                    *)
(***************************************************************************)

\* C15  Queries are read-only and return fresh sequences: no search or
\* accessor call changes the product list or a product record, and a caller
\* that reorders or truncates the sequence a search returned leaves the list
\* of the catalog, hence the result of every later call, unchanged.
ClaimC15 == [][UNCHANGED <<catalog, products, arProducts>>]_vars

\* the rule of the text search: the lower-cased query q is a substring of the
\* lower-cased title (the name when there is no title), description or
\* brand, or of a tag or a feature
TextHit(product, q) ==
    \/ Includes(toLowerCase(IF product.title # None THEN product.title[1]
                            ELSE OrElse(product.name, "")), q)
    \/ Includes(toLowerCase(OrElse(product.description, "")), q)
    \/ Includes(toLowerCase(product.brand), q)
    \/ \E i \in 1..Len(OrEmpty(product.tags)) :
           Includes(toLowerCase(OrEmpty(product.tags)[i]), q)
    \/ \E i \in 1..Len(OrEmpty(product.features)) :
           Includes(toLowerCase(OrEmpty(product.features)[i]), q)

\* result is what the rule selects from prods for the query; a query of
\* blanks only is left open, as it is empty to one reader and not to another
TextResult(result, prods, query) ==
    IF query = "" THEN result = Ok(prods)
    ELSE IF BlankQuery(query) THEN result.st = "ok"
    ELSE /\ result.st = "ok"
         /\ \A x \in Elems(prods) :
               x \in Elems(result.val) <=> TextHit(x, toLowerCase(query))
         /\ Elems(result.val) \subseteq Elems(prods)

\* C16  Text search: for a non-empty query a product is in the result of
\* searchProducts if and only if the rule of the text search selects it; an
\* empty or absent query returns every product.
ClaimC16 ==
    [][\A c \in Callers :
          (/\ call[c].pc = "ready"
           /\ call'[c].pc = "returned"
           /\ call[c].op = "searchProducts")
          => TextResult(call'[c].ret, products, call[c].arg)
      ]_vars

\* C16 on ProductService, for options that hold a query and nothing else
ClaimC16_ProductService ==
    (/\ Searched
     /\ p_ret.arg.query # None
     /\ p_ret.arg.filters = None
     /\ p_ret.arg.sort = None
     /\ NoPage(p_ret.arg))
    => TextResult(p_ret.ret, p_products, p_ret.arg.query[1])

(***************************************************************************)
(* Properties of the lookup and of the load on malformed records.          *)
(***************************************************************************)

\* the id is neither a key of the AR collection nor the id of a product
Miss(id, cat, prods) ==
    /\ cat # None => \A i \in 1..Len(OrEmpty(cat[1].arProducts)) :
                         OrEmpty(cat[1].arProducts)[i].key # id
    /\ \A i \in 1..Len(prods) : prods[i].id # id

\* C17  Lookup miss is not an error: after the load, getProductById of an id
\* that is neither a key of the AR collection nor the id of a product returns
\* no product (undefined) and does not throw.
ClaimC17 ==
    /\ \A c \in Callers :
          (Returned(c, "getProductById") /\ Miss(call[c].arg, catalog, products))
          => call[c].ret = Ok(None)
    /\ (/\ p_pc = "done"
        /\ p_ret.op = "getProductById"
        /\ p_ret.ret = PCompute(p_ret.op, p_ret.arg)
        /\ Miss(p_ret.arg, p_catalog, p_products))
       => p_ret.ret = Ok(None)

\* C17 for ids that are no property name of Object.prototype
ClaimC17_plainIds ==
    \A c \in Callers :
        (/\ Returned(c, "getProductById")
         /\ Miss(call[c].arg, catalog, products)
         /\ call[c].arg \notin ObjectPrototypeKeys)
        => call[c].ret = Ok(None)

(***************************************************************************)
(* Properties of the product quiz.                                         *)
(***************************************************************************)

\* C18  Quiz discount reward: when the quiz shows its results, the discount
\* is reported as earned if and only if the user liked at least 3 products of
\* the quiz, and the percentage shown is the one sent with the quiz, 5 when
\* the payload gives none.
ClaimC18 ==
    ResultsShown
    => /\ earnedDiscount <=> Cardinality(user.liked \cap Elems(quiz.products)) >= 3
       /\ earnedDiscount
          => quiz.discountPercentage = IF user.sent = None THEN 5 ELSE user.sent[1]

\* C18 for a quiz sent with a percentage other than 0, or with none
ClaimC18_nonZero ==
    (ResultsShown /\ user.sent # Some(0)) => ClaimC18

(***************************************************************************)
(* C21: the accessors on a failed catalog.                                 *)
(***************************************************************************)

\* a failure that the load catches: no response, or a body that is no JSON
Caught == resp.kind = "reject" \/ resp.body = None

\* C21  Accessors on a failed catalog: after a failed load every accessor
\* other than get-by-id returns without throwing; getCatalogInfo returns
\* null, getPriceRange a range with min <= max, every other one an empty
\* list.
ClaimC21 ==
    (p_pc = "done" /\ Caught /\ p_ret.op \notin {"", "getProductById"})
    => /\ p_ret.ret.st = "ok"
       /\ CASE p_ret.op = "getCatalogInfo" -> p_ret.ret.val = None
            [] p_ret.op = "getPriceRange" ->
                   Leq(p_ret.ret.val.min, p_ret.ret.val.max)
            [] OTHER -> p_ret.ret.val = <<>>

\* C21 without getPriceRange
ClaimC21_lists ==
    (p_pc = "done" /\ Caught /\ p_ret.op \notin {"", "getProductById", "getPriceRange"})
    => p_ret.ret = Ok(<<>>)

\* C21 on CombinedProductService: every accessor other than get-by-id
\* returns an empty list
ClaimC21_Combined ==
    \A c \in Callers :
        (c_pc = "done" /\ Caught /\ call[c].pc = "returned"
         /\ call[c].op # "getProductById")
        => call[c].ret = Ok(<<>>)

\* a search and a category lookup have returned on the failed catalog
WitnessC21_Combined ==
    \E c \in Callers :
        /\ c_pc = "done" /\ Caught /\ call[c].pc = "returned"
        /\ call[c].op \in {"searchProducts", "getProductsByCategory"}

(***************************************************************************)
(* C22, C23: the order of the four steps of searchProducts.                *)
(***************************************************************************)

\* the product passes the text search and the attribute filters of the call
Matching(product, options) ==
    /\ QueryGiven(options)
       => P_Matches(product, toLowerCase(options.query[1])) = "yes"
    /\ options.filters # None => PassesFilters(product, options.filters[1])

\* the matching products, in catalog order
Matches ==
    LET M(product) == Matching(product, p_ret.arg) IN Filter(p_products, M)

SortGiven(options) == options.sort # None /\ options.sort # Some("")

\* what the same search returns for another page
OtherPage(offset, limit) ==
    searchProducts(p_products, [p_ret.arg EXCEPT !.offset = offset, !.limit = limit]).val

\* C22  Fixed evaluation order: the result is the page of the sorted list of
\* the products that pass the text search and the filters.  Every product
\* returned matches, the result is in sort order, without a limit it holds
\* every match, with a limit n and no offset it holds the n matches that come
\* first under the sort option (the n cheapest for 'price-low'), and the page
\* [o, o + n) is the first o + n of them without the first o.
ClaimC22 ==
    (Searched /\ p_ret.ret.st = "ok")
    => LET options == p_ret.arg IN
       /\ \A i \in 1..Len(Result) : Matching(Result[i], options)
       /\ \A x \in Elems(Result) : Count(Result, x) <= Count(Matches, x)
       /\ SortGiven(options)
          => \A i, j \in 1..Len(Result) :
                 i < j => Compare(options.sort[1], Result[i], Result[j]) <= 0
       /\ options.limit = None => Len(Result) = Len(Matches)
       /\ (options.limit # None /\ options.offset = None)
          => /\ Len(Result) = Min2(options.limit[1], Len(Matches))
             /\ SortGiven(options)
                => \A x \in Elems(Matches) :
                       Count(Result, x) < Count(Matches, x)
                       => \A i \in 1..Len(Result) :
                              Compare(options.sort[1], Result[i], x) <= 0
       /\ (options.limit # None /\ options.offset # None /\ options.offset[1] >= 0)
          => LET upTo == OtherPage(None, Some(options.offset[1] + options.limit[1]))
             IN  Result = SubSeq(upTo, options.offset[1] + 1, Len(upTo))

\* a search by a word with a filter, sorted by price and cut to one product:
\* two of the three products of the catalog match, the one returned is the
\* second of them in the catalog and the cheaper
WitnessC22 ==
    /\ Searched /\ p_ret.ret.st = "ok"
    /\ QueryGiven(p_ret.arg) /\ p_ret.arg.filters # None
    /\ p_ret.arg.sort = Some("price-low") /\ p_ret.arg.limit = Some(1)
    /\ Len(p_products) = 3
    /\ Len(Matches) = 2
    /\ Result = <<Matches[2]>>
    /\ Matches[1].price > Result[1].price

\* C23  An offset without a limit has no effect: the search returns the whole
\* filtered and sorted list, every match, as it does with neither.
ClaimC23 ==
    (/\ Searched /\ p_ret.ret.st = "ok"
     /\ p_ret.arg.offset # None /\ p_ret.arg.limit = None)
    => /\ Result = OtherPage(None, None)
       /\ Len(Result) = Len(Matches)

\* a filtered and sorted search with the offset 1 and no limit has returned
\* two products or more, the first of them not the first match of the catalog
WitnessC23 ==
    /\ Searched /\ p_ret.ret.st = "ok"
    /\ p_ret.arg.offset = Some(1) /\ p_ret.arg.limit = None
    /\ p_ret.arg.filters # None /\ SortGiven(p_ret.arg)
    /\ Len(Result) >= 2
    /\ Len(Result) < Len(p_products)
    /\ Result[1] # Matches[1]

(***************************************************************************)
(* Properties of the quiz: its completion and its submission.              *)
(***************************************************************************)

\* every product of the quiz has an entry in the selections
Covered(selections) ==
    \A i \in 1..Len(quiz.products) : selections[quiz.products[i]] # "none"

\* C24  Quiz completeness: currentIndex never exceeds products.length, and
\* when the quiz is complete (currentIndex >= products.length) the
\* selections hold an entry for every product of the quiz, so the payload
\* of agent.submitProductQuiz covers them all.
ClaimC24 ==
    /\ quiz.currentIndex <= Len(quiz.products)
    /\ quiz.currentIndex >= Len(quiz.products) => Covered(quiz.selections)

\* C24 for a quiz in which no choice came from a card that was leaving
ClaimC24_currentCards ==
    ~user.stale => ClaimC24

\* C24, first half
ClaimC24_index == quiz.currentIndex <= Len(quiz.products)

ClaimC26 ==
    [][/\ (user.outcome # "skipped" /\ user'.outcome = "skipped") => quiz' = quiz
       /\ (quiz.pending = None /\ quiz'.pending # None)
          => /\ quiz.agent
             /\ quiz.quizId \notin {None, Some("")}
             /\ quiz' = [quiz EXCEPT
                            !.pending = Some([id |-> quiz.quizId[1],
                                              selections |-> quiz.selections])]
       /\ (/\ handleQuizComplete
           /\ quiz.agent /\ quiz.quizId \notin {None, Some("")})
          => quiz'.pending # None
       /\ (~quiz.showResults /\ quiz'.showResults)
          => quiz.pending # None /\ quiz'.pending = None /\ user'.outcome = "succeeded"
       /\ (quiz.pending # None /\ quiz'.pending = None /\ user'.outcome = "failed")
          => /\ quiz'.showResults = quiz.showResults
             /\ quiz'.selections = quiz.selections
      ]_vars

\* a complete quiz was submitted and the request has failed: the quiz is
\* still on screen, complete, without results
WitnessC26 ==
    /\ user.outcome = "failed"
    /\ quiz.agent
    /\ CompleteView(quiz)
    /\ Covered(quiz.selections)
    /\ quiz.pending = None

\* the button was pressed while no agent was in the room
WitnessC26_noAgent ==
    /\ user.outcome = "skipped"
    /\ ~quiz.agent
    /\ quiz.quizId # None
    /\ CompleteView(quiz)

(***************************************************************************)
(* Properties of the card overlay.                                         *)
(***************************************************************************)

NoTwoAlike(list) ==
    \A i, j \in 1..Len(list) : i # j => list[i].id # list[j].id

\* C27  After any sequence of 'show' requests no two cards of the list have
\* one id: a request whose id is in the list replaces that card where it is
\* and leaves the length and the other cards as they are, a request with a
\* new id appends one card at the end.
ClaimC27 ==
    [][\A data \in CardData :
           (ReadAction(Decode(data).val) = Ok("show") /\ handleShowProductCard(data))
           => LET card == newCard(Decode(data).val)
                  prev == cards.productCards
                  next == cards'.productCards
                  at == {i \in 1..Len(prev) : prev[i].id = card.id}
              IN  /\ NoTwoAlike(prev) => NoTwoAlike(next)
                  /\ at # {}
                     => /\ Len(next) = Len(prev)
                        /\ \A i \in 1..Len(prev) :
                               next[i] = IF i \in at THEN card ELSE prev[i]
                  /\ at = {}
                     => /\ Len(next) = Len(prev) + 1
                        /\ next[Len(next)] = card
                        /\ \A i \in 1..Len(prev) : next[i] = prev[i]
      ]_vars

\* the list holds a card of every id, and the latest request has replaced
\* one of them
WitnessC27 ==
    /\ Len(cards.productCards) = MaxCards + 1
    /\ NoTwoAlike(cards.productCards)
    /\ cards.last = Some("replaced")
    /\ cards.productCards[1].title = "second"

\* C27 as an invariant: no two cards of the list have one id
ClaimC27_noTwoAlike == NoTwoAlike(cards.productCards)

\* C28  After a 'show' request without an index the panel is visible and the
\* card on display, productCards[currentCardIndex], is the card of that
\* request: when the id is new, when it replaces a card, and when requests
\* arrive before the handler is registered again.
ClaimC28 ==
    [][\A data \in CardData :
           (/\ ReadAction(Decode(data).val) = Ok("show")
            /\ Decode(data).val.index = None
            /\ handleShowProductCard(data))
           => /\ cards'.isVisible
              /\ CardAt(cards') = Some(newCard(Decode(data).val))
      ]_vars

\* C28 for a new id, handled by the handler of the latest render
ClaimC28_newIdRegistered ==
    [][\A data \in CardData :
           (/\ ReadAction(Decode(data).val) = Ok("show")
            /\ Decode(data).val.index = None
            /\ cards.registered = Len(cards.productCards)
            /\ \A i \in 1..Len(cards.productCards) :
                   cards.productCards[i].id # Decode(data).val.id
            /\ handleShowProductCard(data))
           => /\ cards'.isVisible
              /\ CardAt(cards') = Some(newCard(Decode(data).val))
      ]_vars

(***************************************************************************)
(* Properties of the three RPC handlers.                                   *)
(***************************************************************************)

IsError(ret) == Len(ret) >= 6 /\ SubSeq(ret, 1, 6) = "Error:"

\* C29  The handlers of client.productcard, client.productquiz and
\* client.productgrid never throw: for data that is not an object, that has
\* no payload, or whose string payload is not valid JSON, the handler returns
\* a string that starts with 'Error:' and leaves the state of every component
\* (cards, quiz, grid, visibility, indices) as it was.
ClaimC29 ==
    [][\A data \in BadData :
           (\/ handleShowProductQuiz(data)
            \/ handleShowProductCard(data)
            \/ handleShowProductGrid(data))
           => /\ IsError(rpc'.ret)
              /\ quiz' = quiz
              /\ cards' = cards
              /\ grid' = grid
      ]_vars

\* a payload that is no JSON has reached the grid handler while the quiz, a
\* card and a grid were on display
WitnessC29 ==
    /\ rpc.method = "client.productgrid"
    /\ rpc.kind = "bad-json"
    /\ IsError(rpc.ret)
    /\ quiz.isVisible /\ Len(quiz.products) > 0
    /\ cards.isVisible /\ Len(cards.productCards) > 0
    /\ grid.isVisible /\ grid.productGrid # None

(***************************************************************************)
(* Properties of the grid panel.                                           *)
(***************************************************************************)

\* less than 500 ms have passed since the last update of the grid
TooSoon == grid.now - grid.lastUpdateTime < ThrottleMs

\* a request within 500 ms of the last update changes nothing and is
\* answered 'Success (throttled)'
ThrottleStep(data) ==
    (TooSoon /\ handleShowProductGrid(data))
    => /\ grid' = grid
       /\ rpc'.ret = "Success (throttled)"

\* a show_grid request that is carried out replaces the pending timeout by
\* its own and applies nothing yet
DebounceStep(data) ==
    (/\ ReadAction(Decode(data).val) = Ok("show_grid")
     /\ handleShowProductGrid(data)
     /\ rpc'.ret = "Success")
    => /\ grid'.timer = Some([grid |-> GridOf(Decode(data).val),
                              due |-> grid.now + DebounceMs])
       /\ grid'.productGrid = grid.productGrid
       /\ grid'.lastUpdateTime = grid.lastUpdateTime

\* the grid and lastUpdateTime change only when the pending timeout fires,
\* to the grid of the latest request
TimerStep ==
    (grid'.productGrid # grid.productGrid \/ grid'.lastUpdateTime # grid.lastUpdateTime)
    => /\ grid.timer # None
       /\ grid.now >= grid.timer[1].due
       /\ grid'.productGrid = Some(grid.timer[1].grid)
       /\ grid'.lastUpdateTime = grid.now
       /\ grid'.timer = None

\* C30  Throttle and debounce of the grid: a client.productgrid request less
\* than 500 ms after the last update of the grid changes no state, whatever
\* its action, and returns 'Success (throttled)'; of the show_grid requests
\* that pass the throttle within 100 ms of each other only the last is
\* applied, and the grid and lastUpdateTime change only when the pending
\* timeout fires.
ClaimC30 ==
    [][/\ \A data \in GridData : ThrottleStep(data) /\ DebounceStep(data)
       /\ TimerStep
      ]_vars

\* C30, the throttle for the handler of the latest render
ClaimC30_registered ==
    [][\A data \in GridData :
           grid.registered = grid.lastUpdateTime => ThrottleStep(data)
      ]_vars

\* C30, the debounce and the timeout
ClaimC30_debounce ==
    [][/\ \A data \in GridData : DebounceStep(data)
       /\ TimerStep
      ]_vars

\* C30: a request is throttled after an update of the grid
ReachC30_throttled ==
    /\ grid.productGrid # None
    /\ TooSoon
    /\ rpc.ret = "Success (throttled)"

\* C30: a request has replaced a pending timeout by its own
ReachC30_debounced ==
    /\ grid.timer # None
    /\ grid.timer[1].grid.title = "g2"
    /\ grid.productGrid # None
    /\ grid.productGrid[1].title = "g1"

====
